---- MODULE Spec2Model ----
(***************************************************************************)
(* GeminiAiService (src/src/lib/gemini-ai.ts): the request orchestrator    *)
(* (makeApiRequest / makeRequestWithRetry), the four facade operations,    *)
(* the connectivity probe and the response recovery (safeJsonParse).       *)
(*                                                                         *)
(* JavaScript runs one task at a time: a step of the model is everything   *)
(* an async function does between two suspension points (a fetch, a        *)
(* backoff sleep, the body read), microtask continuations included.        *)
(* Strings are modelled as sequences of tokens; a message or prompt on     *)
(* which the code only tests includes(...) is the set of the literals it   *)
(* contains.                                                               *)
(***************************************************************************)
EXTENDS Integers, Sequences, FiniteSets, TLC

VARIABLES
    PROD,          \* import.meta.env.PROD
    configKey,     \* GEMINI_API_KEY = config.gemini.apiKey
    instance,      \* number of GeminiAiService objects constructed
    apiKey,        \* this.apiKey
    useMockData,   \* this.useMockData
    onLine,        \* navigator.onLine
    req,           \* one record per asynchronous execution (probe, requests)
    synth          \* Mock Synthesis on its own: the inputs and results of its calls

vars == <<PROD, configKey, instance, apiKey, useMockData, onLine, req, synth>>

-----------------------------------------------------------------------------
(* Bounds of the model *)

\* number of callers (each has at most one request in flight; the probe is extra)
NumRequests == 1

(* Program constants *)

\* makeRequestWithRetry(..., maxRetries: number = 2)
maxRetries == 2

\* the transport-error branch retries while attempt < 1
netRetryLimit == 1

\* validateApiKey: this.apiKey.length < 10
minKeyLength == 10

Probe == 0
Requests == 1..NumRequests
Procs == {Probe} \cup Requests

\* the endpoints array of makeApiRequest, in order
endpoints == <<"gemini-1.5-flash", "gemini-pro", "gemini-1.0-pro">>

-----------------------------------------------------------------------------
(* Strings *)

Includes(s, lit) == lit \in s

\* const y = x; F(y): the value of one statement handed to the next, x
\* evaluated once
Then(x, F(_)) == CHOOSE out \in {F(y) : y \in {x}} : TRUE

\* a string built from characters, for startsWith / length
Chars(n, c) == [i \in 1..n |-> c]

StartsWith(s, prefix) ==
    /\ Len(s) >= Len(prefix)
    /\ SubSeq(s, 1, Len(prefix)) = prefix

\* the keys the configuration can supply: missing, too short, wrong prefix, valid
Keys ==
    { <<>>,
      <<"A", "I", "z", "a">>,
      <<"A", "I", "z", "a">> \o Chars(5, "x"),
      <<"A", "I", "z", "a">> \o Chars(6, "x"),
      <<"s", "k", "-">> \o Chars(7, "x") }

\* a validateApiKey without the startsWith('AIza') test
validateApiKeyByLength(key) ==
    IF Len(key) = 0 \/ Len(key) < minKeyLength THEN FALSE ELSE TRUE

validateApiKey(key) ==
    IF Len(key) = 0 \/ Len(key) < minKeyLength
    THEN FALSE
    ELSE IF ~StartsWith(key, <<"A", "I", "z", "a">>)
         THEN FALSE
         ELSE TRUE

-----------------------------------------------------------------------------
(* Response recovery.  A text is a sequence of tokens: the JSON            *)
(* punctuation, "ws" (white space), scalars, string literals, "p" (a word  *)
(* of prose), "fence" (three backquotes) and the language tag json.         *)

StringToks ==
    { "\"s\"", "\"enhancedQuery\"", "\"categories\"", "\"marketAnalysis\"",
      "\"recommendations\"", "\"searchTips\"" }

Scalars == {"0", "1", "null"} \cup StringToks

\* the three backquotes of a fenced code block
FENCE == "fence"

StripWs(s) == SelectSeq(s, LAMBDA t : t # "ws")

RECURSIVE ValueEnd(_, _), ElemsEnd(_, _), MembersEnd(_, _),
          AfterElem(_, _), AfterMember(_, _)

\* the index after the JSON value that starts at c[i], 0 when there is none
ValueEnd(c, i) ==
    IF i > Len(c) THEN 0
    ELSE IF c[i] \in Scalars THEN i + 1
    ELSE IF c[i] = "["
         THEN IF i + 1 <= Len(c) /\ c[i + 1] = "]" THEN i + 2 ELSE ElemsEnd(c, i + 1)
    ELSE IF c[i] = "{"
         THEN IF i + 1 <= Len(c) /\ c[i + 1] = "}" THEN i + 2 ELSE MembersEnd(c, i + 1)
    ELSE 0

\* an element starts at c[i]: the index after the closing bracket of its array
ElemsEnd(c, i) == Then(ValueEnd(c, i), LAMBDA j : AfterElem(c, j))

AfterElem(c, j) ==
    IF j = 0 \/ j > Len(c) THEN 0
    ELSE IF c[j] = "]" THEN j + 1
    ELSE IF c[j] = "," THEN ElemsEnd(c, j + 1)
    ELSE 0

\* a member starts at c[i]: the index after the closing brace of its object
MembersEnd(c, i) ==
    IF i + 1 > Len(c) THEN 0
    ELSE IF c[i] \notin StringToks \/ c[i + 1] # ":" THEN 0
    ELSE Then(ValueEnd(c, i + 2), LAMBDA j : AfterMember(c, j))

AfterMember(c, j) ==
    IF j = 0 \/ j > Len(c) THEN 0
    ELSE IF c[j] = "}" THEN j + 1
    ELSE IF c[j] = "," THEN MembersEnd(c, j + 1)
    ELSE 0

SyntaxError == [ok |-> FALSE, value |-> <<>>]

ParseTokens(c) ==
    IF Len(c) > 0 /\ ValueEnd(c, 1) = Len(c) + 1
    THEN [ok |-> TRUE, value |-> c]
    ELSE SyntaxError

\* JSON.parse: the value (its tokens without white space), or a SyntaxError
JSONparse(s) == Then(StripWs(s), ParseTokens)

Min(S) == CHOOSE i \in S : \A k \in S : i <= k
Max(S) == CHOOSE i \in S : \A k \in S : k <= i

Positions(s, t) == {i \in 1..Len(s) : s[i] = t}

Between(s, keep) == IF keep = {} THEN <<>> ELSE SubSeq(s, Min(keep), Max(keep))

\* String.prototype.trim
Trim(s) == Then({i \in 1..Len(s) : s[i] # "ws"}, LAMBDA keep : Between(s, keep))

FirstIn(at) == IF at = {} THEN 0 ELSE Min(at)
LastIn(at) == IF at = {} THEN 0 ELSE Max(at)

FirstIndex(s, t) == FirstIn(Positions(s, t))
LastIndex(s, t) == LastIn(Positions(s, t))

Span(i, j) == IF i > 0 /\ i < j THEN <<i, j>> ELSE <<0, 0>>

\* s.match(/open[\s\S]*close/): the leftmost, longest span, <<0, 0>> for no match
GreedySpan(s, open, close) == Span(FirstIndex(s, open), LastIndex(s, close))

\* the text of a match, or the text itself when there is no match
Matched(s, m) == IF m[1] > 0 THEN SubSeq(s, m[1], m[2]) ELSE s

StripOpeningFence(t) ==
    IF StartsWith(t, <<FENCE, "json">>) THEN SubSeq(t, 3, Len(t))
    ELSE IF StartsWith(t, <<FENCE>>) THEN SubSeq(t, 2, Len(t))
    ELSE t

StripClosingFence(t) ==
    IF Len(t) > 0 /\ t[Len(t)] = FENCE THEN SubSeq(t, 1, Len(t) - 1) ELSE t

\* const jsonMatch = cleaned.match(/\{[\s\S]*\}/); if (jsonMatch) cleaned = jsonMatch[0]
ExtractObject(t) == Matched(t, GreedySpan(t, "{", "}"))

\* const arrayMatch = cleaned.match(/\[[\s\S]*\]/); if (arrayMatch) cleaned = arrayMatch[0]
ExtractArray(t) == Matched(t, GreedySpan(t, "[", "]"))

\* let cleaned = response.trim(), then one statement after the other on cleaned
cleanGeminiResponse(response) ==
    Then(Then(Then(Then(Then(Then(response,
        Trim), StripOpeningFence), StripClosingFence), Trim),
        ExtractObject), ExtractArray)

Leftmost(o, a) == IF o[1] > 0 /\ (a[1] = 0 \/ o[1] < a[1]) THEN o ELSE a

\* response.match(/(\{[\s\S]*\}|\[[\s\S]*\])/): the leftmost of the two spans
jsonPattern(response) ==
    Leftmost(GreedySpan(response, "{", "}"), GreedySpan(response, "[", "]"))

\* the third try: if (match) return JSON.parse(match[1])
ParseMatch(response, match) ==
    IF match[1] > 0 THEN JSONparse(SubSeq(response, match[1], match[2]))
    ELSE SyntaxError

\* the first try that parses; found = FALSE is the null returned when none does
FirstParsed(first, second, third) ==
    IF first.ok THEN [found |-> TRUE, value |-> first.value]
    ELSE IF second.ok THEN [found |-> TRUE, value |-> second.value]
    ELSE IF third.ok THEN [found |-> TRUE, value |-> third.value]
    ELSE [found |-> FALSE, value |-> <<>>]

safeJsonParse(response) ==
    FirstParsed(JSONparse(response),
                JSONparse(cleanGeminiResponse(response)),
                ParseMatch(response, jsonPattern(response)))

\* JavaScript truthiness of what safeJsonParse returned
Truthy(parsed) == parsed.found /\ parsed.value \notin {<<"0">>, <<"null">>}

\* nesting depth of position i of a value
Depth(c, i) ==
    Cardinality({k \in 1..(i - 1) : c[k] \in {"{", "["}})
      - Cardinality({k \in 1..(i - 1) : c[k] \in {"}", "]"}})

\* the property names of an object value (none for any other value)
TopKeys(c) ==
    IF Len(c) = 0 \/ c[1] # "{" THEN {}
    ELSE {c[i] : i \in {k \in 1..(Len(c) - 1) : c[k + 1] = ":" /\ Depth(c, k) = 1}}

\* a complete SmartSearchResult as the prompt of enhanceSearchQuery asks for it
FullResult ==
    << "{", "\"enhancedQuery\"", ":", "\"s\"", ",",
            "\"categories\"", ":", "[", "]", ",",
            "\"marketAnalysis\"", ":", "{", "}", ",",
            "\"recommendations\"", ":", "[", "]", ",",
            "\"searchTips\"", ":", "[", "]", "}" >>

\* JSON.stringify of some objects: the requested shape (three arrays and an
\* object inside), the empty object, an object with one array, an object with
\* an object
JsonObjects ==
    { FullResult,
      <<"{", "}">>,
      <<"{", "\"categories\"", ":", "[", "1", ",", "0", "]", "}">>,
      <<"{", "\"marketAnalysis\"", ":", "{", "\"s\"", ":", "1", "}", "}">> }

\* a reply with the JSON in a fenced code block between two lines of prose
Fenced(json) ==
    <<"p", "ws", FENCE, "json", "ws">> \o json \o <<"ws", FENCE, "ws", "p">>

\* a reply with the JSON between two lines of prose, without a fence
InProse(json) == <<"p", "ws">> \o json \o <<"ws", "p">>

\* the texts the backend answers with: clean JSON, the same in a fenced block
\* or in prose, JSON that is not an object, prose, the empty string
Texts ==
    JsonObjects
      \cup {Fenced(v) : v \in JsonObjects}
      \cup {InProse(v) : v \in JsonObjects}
      \cup { <<"p", "ws", FENCE, "json", "ws">> \o FullResult \o <<"ws", FENCE>>,
             <<"[", "]">>, <<"1">>, <<"0">>,
             <<"p", "ws", "{", "\"s\"", ":", "}">>,
             <<"p", "ws", "p">>, <<>> }

-----------------------------------------------------------------------------
(* Errors, values and prompts *)

Err(name, message) == [name |-> name, message |-> message]

NoError == Err("none", {})

MsgTimedOut       == {"Request timed out. Please try again.", "timed out"}
MsgAborted        == {"Request was aborted"}
MsgFailedToFetch  == {"Failed to fetch"}
MsgNoInternet     == {"No internet connection"}
MsgNoInternetFull == {"No internet connection. Please check your network.",
                      "No internet connection"}
MsgNetworkError   == {"Network error. Please check your internet connection."}
MsgInvalidStructure == {"Invalid response structure from Gemini API"}
MsgAllFailed      == {"All Gemini API endpoints failed. Last error: "}

\* `Endpoint ${endpoint}: ${...}`
EndpointError(k, rest) == {"Endpoint", endpoints[k]} \cup rest

\* the queries of the model: "iphone"
Queries == { <<"i", "p", "h", "o", "n", "e">> }

GeneralProduct == <<"g", "e", "n", "e", "r", "a", "l", " ",
                    "p", "r", "o", "d", "u", "c", "t">>

FacadeOps == {"enhance", "categorize", "analyze", "recommend"}

\* a direct makeApiRequest call (the chat prompt of a UI component) and the probe
Ops == FacadeOps \cup {"chat", "test"}

\* the literals of the prompt each operation builds that the code looks for
PromptLiterals(op) ==
    CASE op = "enhance"    -> {"Analyze this search query:", "\"enhancedQuery\"",
                               "\"categories\"", "\"marketAnalysis\"",
                               "\"recommendations\"", "\"searchTips\""}
      [] op = "categorize" -> {"\"category\"", "\"confidence\"", "\"subcategory\""}
      [] op = "analyze"    -> {"\"priceRange\"", "\"marketTrend\"", "\"bestTimeToBuy\"",
                               "\"pricePrediction\"", "\"marketInsights\""}
      [] op = "recommend"  -> {"\"productName\"", "\"reason\"", "\"category\"",
                               "\"estimatedPrice\"", "\"confidence\""}
      [] op = "test"       -> {"Hello, this is a test message."}
      [] OTHER             -> {}

Prompt(op, query) == [lits |-> PromptLiterals(op), query |-> query]

\* prompt.match(/Analyze this search query:\s*"([^"]+)"/)
extractQueryFromPrompt(prompt) ==
    IF Includes(prompt.lits, "Analyze this search query:") /\ Len(prompt.query) > 0
    THEN prompt.query
    ELSE GeneralProduct

Value(type, src, text, mock, query) ==
    [type |-> type, src |-> src, text |-> text, mock |-> mock, query |-> query]

NoValue == Value("none", "none", <<>>, "none", <<>>)

\* every canned reply of generateMockResponse is prose without braces or brackets
MockResponseText == <<"p", "ws", "p">>

generateMockResponse(prompt) ==
    Value("string", "mock", MockResponseText, "Response", prompt.query)

MockSmartSearchResult(query) ==
    Value("object", "mock", <<>>, "SmartSearchResult", query)

MockCategories == Value("object", "mock", <<>>, "Categories", GeneralProduct)
MockMarketAnalysis == Value("object", "mock", <<>>, "MarketAnalysis", GeneralProduct)
MockRecommendations == Value("object", "mock", <<>>, "Recommendations", <<>>)

\* the mock branch of makeApiRequest (the same test in the PROD and the mock block)
IsStructuredPrompt(prompt) ==
    \/ Includes(prompt.lits, "\"enhancedQuery\"")
    \/ Includes(prompt.lits, "\"categories\"")
    \/ Includes(prompt.lits, "\"marketAnalysis\"")

MockForPrompt(prompt) ==
    IF IsStructuredPrompt(prompt)
    THEN MockSmartSearchResult(extractQueryFromPrompt(prompt))
    ELSE generateMockResponse(prompt)

\* what one makeApiRequest execution ended with
Outcome(status, value, error, forced, aborted, rateLimited) ==
    [status |-> status, value |-> value, error |-> error,
     forced |-> forced,            \* forceMockMode was called on the way
     signalAborted |-> aborted,    \* controller.signal.aborted at that moment
     rateLimited |-> rateLimited]  \* 429 answers of the endpoint tried last

NoOutcome == Outcome("none", NoValue, NoError, FALSE, FALSE, 0)

IdleReq ==
    [pc |-> "idle", op |-> "none", query |-> <<>>, ep |-> 0, attempt |-> 0,
     aborted |-> FALSE, timer |-> "none", lastError |-> {},
     rateLimited |-> 0,      \* 429 answers in this call of makeRequestWithRetry
     err |-> NoError,        \* the error being thrown, inside a step
     forced |-> FALSE,       \* forceMockMode was called, inside a step
     calls |-> 0,            \* fetch calls in this call of makeRequestWithRetry
     api |-> NoOutcome, result |-> NoOutcome]

-----------------------------------------------------------------------------
(* makeApiRequest and makeRequestWithRetry.  The record of an execution    *)
(* holds its position pc: a suspension point ("fetch", "sleep429",         *)
(* "sleepNet", "json"), its end ("apiDone", then "done"), or a block of    *)
(* code that runs without suspending.  Each operator below is one such     *)
(* block: it takes the record and gives the record at the block's exit.    *)

clearTimeout(timer) == IF timer = "armed" THEN "cleared" ELSE timer

\* a forceMockMode that leaves the flag as it is
forceMockModeSkipped(mock) == mock

\* forceMockMode: the new value of useMockData
forceMockMode(mock) == IF ~PROD THEN TRUE ELSE mock

\* makeApiRequest ends: its locals (endpoint, attempt, lastError, the controller)
\* are gone, the timer lives on unless it was cleared
Return(r, value) ==
    [r EXCEPT !.pc = "apiDone", !.ep = 0, !.attempt = 0, !.lastError = {},
              !.aborted = FALSE, !.err = NoError, !.forced = FALSE,
              !.rateLimited = 0, !.calls = 0,
              !.api = Outcome("returned", value, NoError, r.forced, r.aborted,
                              r.rateLimited)]

Throw(r, e) ==
    [r EXCEPT !.pc = "apiDone", !.ep = 0, !.attempt = 0, !.lastError = {},
              !.aborted = FALSE, !.err = NoError, !.forced = FALSE,
              !.rateLimited = 0, !.calls = 0,
              !.api = Outcome("threw", NoValue, e, r.forced, r.aborted,
                              r.rateLimited)]

\* the error the outer catch of makeApiRequest throws for the error it caught
Classify(e) ==
    IF e.name = "AbortError" \/ Includes(e.message, "timed out")
    THEN Err("Error", MsgTimedOut)
    ELSE IF Includes(e.message, "Failed to fetch")
    THEN Err("Error", MsgNetworkError)
    ELSE IF Includes(e.message, "No internet connection")
    THEN Err("Error", MsgNoInternetFull)
    ELSE e

\* catch (error) of makeApiRequest
OuterCatch(r) == Throw([r EXCEPT !.timer = clearTimeout(@)], Classify(r.err))

\* after the endpoint loop, with no response or a response that is not ok
AfterLoop(r) ==
    [r EXCEPT !.pc = "outerCatch",
              !.err = Err("Error", MsgAllFailed \cup r.lastError),
              !.forced = Includes(r.lastError, "429")]

\* makeRequestWithRetry returned null: return this.generateMockResponse(prompt)
Sentinel(r) == Return(r, generateMockResponse(Prompt(r.op, r.query)))

StatusLine(status) ==
    CASE status = "429" -> {"429", "Too Many Requests"}
      [] status = "500" -> {"500", "Internal Server Error"}
      [] OTHER          -> {status}

\* the response is not ok: lastError = `Endpoint ...: status statusText`
HttpFailure(r, status) ==
    [r EXCEPT !.pc = "nextEndpoint",
              !.lastError = EndpointError(r.ep, StatusLine(status))]

\* a retry loop that does not count its attempts
NextAttemptStuck(attempt) == attempt

\* attempt++ of the for loop
NextAttempt(attempt) == attempt + 1

\* the start of one iteration of the retry loop, up to the fetch
\* an attempt that does not look at the signal before it calls fetch
AttemptUnchecked(r) == [r EXCEPT !.pc = "fetch", !.calls = @ + 1]

Attempt(r) ==
    IF r.aborted
    THEN [r EXCEPT !.pc = "catchRetry", !.err = Err("Error", MsgAborted)]
    ELSE [r EXCEPT !.pc = "fetch", !.calls = @ + 1]

\* a catch that retries every error, the AbortError too
CatchRetryAnyError(r) ==
    IF r.attempt < netRetryLimit THEN [r EXCEPT !.pc = "sleepNet", !.err = NoError]
    ELSE [r EXCEPT !.pc = "endpointCatch"]

\* catch (fetchError) of makeRequestWithRetry
CatchRetry(r) ==
    IF r.err.name = "AbortError" THEN [r EXCEPT !.pc = "endpointCatch"]
    ELSE IF r.attempt < netRetryLimit THEN [r EXCEPT !.pc = "sleepNet", !.err = NoError]
    ELSE [r EXCEPT !.pc = "endpointCatch"]

\* catch (fetchError) inside the endpoint loop of makeApiRequest
EndpointCatch(r) ==
    IF r.err.name = "AbortError"
    THEN [r EXCEPT !.pc = "outerCatch", !.err = Err("Error", MsgTimedOut)]
    ELSE [r EXCEPT !.pc = "nextEndpoint", !.err = NoError,
                   !.lastError = EndpointError(r.ep, r.err.message)]

\* the next iteration of for (const endpoint of endpoints), or the loop's end
NextEndpoint(r) ==
    IF r.ep < Len(endpoints)
    THEN [r EXCEPT !.pc = "retryEntry", !.ep = @ + 1]
    ELSE [r EXCEPT !.pc = "afterLoop"]

\* the entry of makeRequestWithRetry
RequestWithRetry(r) ==
    IF PROD THEN [r EXCEPT !.pc = "sentinel"]
    ELSE [r EXCEPT !.pc = "attempt", !.attempt = 0, !.rateLimited = 0, !.calls = 0]

\* a retry that repeats the attempt it follows, without counting it
ContinueSameAttempt(r) == [r EXCEPT !.pc = "attempt"]

\* a retry that starts the loop of attempts again
ContinueFromZero(r) == [r EXCEPT !.pc = "attempt", !.attempt = 0]

\* `continue` after a backoff sleep; when the loop ends, return lastResponse
Continue(r) ==
    LET a == NextAttempt(r.attempt) IN
    IF a <= maxRetries THEN [r EXCEPT !.pc = "attempt", !.attempt = a]
    ELSE IF r.pc = "sleep429" THEN HttpFailure(r, "429")
    ELSE [r EXCEPT !.pc = "sentinel"]

\* an endpoint loop without its break: a success moves on to the next endpoint
OnResponseNoBreak(r, status) ==
    IF status = "200"
    THEN IF r.ep < Len(endpoints)
         THEN [r EXCEPT !.pc = "nextEndpoint"]
         ELSE [r EXCEPT !.pc = "json", !.timer = clearTimeout(@)]
    ELSE IF status = "429"
    THEN IF r.attempt < maxRetries
         THEN [r EXCEPT !.pc = "sleep429", !.rateLimited = @ + 1]
         ELSE [r EXCEPT !.pc = "sentinel", !.forced = TRUE, !.rateLimited = @ + 1]
    ELSE HttpFailure(r, status)

\* every failed response retried with backoff, not the 429 alone
OnResponseRetriesFailures(r, status) ==
    IF status = "200"
    THEN [r EXCEPT !.pc = "json", !.timer = clearTimeout(@)]
    ELSE IF r.attempt < maxRetries
    THEN [r EXCEPT !.pc = "sleep429",
                   !.rateLimited = IF status = "429" THEN @ + 1 ELSE @]
    ELSE IF status = "429"
    THEN [r EXCEPT !.pc = "sentinel", !.forced = TRUE, !.rateLimited = @ + 1]
    ELSE HttpFailure(r, status)

\* a 429 on the last attempt handed back like any other failed response
OnResponseNoSentinel(r, status) ==
    IF status = "200"
    THEN [r EXCEPT !.pc = "json", !.timer = clearTimeout(@)]
    ELSE IF status = "429"
    THEN IF r.attempt < maxRetries
         THEN [r EXCEPT !.pc = "sleep429", !.rateLimited = @ + 1]
         ELSE HttpFailure([r EXCEPT !.rateLimited = @ + 1], status)
    ELSE HttpFailure(r, status)

\* the fetch resolved with an HTTP response
OnResponse(r, status) ==
    IF status = "200"
    THEN [r EXCEPT !.pc = "json", !.timer = clearTimeout(@)]
    ELSE IF status = "429"
    THEN IF r.attempt < maxRetries
         THEN [r EXCEPT !.pc = "sleep429", !.rateLimited = @ + 1]
         ELSE [r EXCEPT !.pc = "sentinel", !.forced = TRUE, !.rateLimited = @ + 1]
    ELSE HttpFailure(r, status)

\* the fetch rejected without a response (TypeError: Failed to fetch)
OnTransportFailure(r) ==
    [r EXCEPT !.pc = "catchRetry", !.err = Err("TypeError", MsgFailedToFetch)]

\* the timeout callback: controller.abort(); a fetch in flight rejects
OnTimeout(r) ==
    IF r.pc = "fetch"
    THEN [r EXCEPT !.aborted = TRUE, !.timer = "fired", !.pc = "catchRetry",
                   !.err = Err("AbortError", {"The user aborted a request."})]
    ELSE [r EXCEPT !.aborted = TRUE, !.timer = "fired"]

\* what response.json() can give
Bodies ==
    [kind : {"text"}, text : Texts] \cup
    [kind : {"noCandidates", "noParts", "noText", "badBody"}, text : {<<>>}]

\* await response.json() settled: validate the envelope, return the text
OnBody(r, body) ==
    CASE body.kind = "badBody" ->
           [r EXCEPT !.pc = "outerCatch", !.err = Err("SyntaxError", {"Unexpected token"})]
      [] body.kind = "noCandidates" ->
           [r EXCEPT !.pc = "outerCatch", !.err = Err("Error", MsgInvalidStructure)]
      [] body.kind = "noParts" ->
           [r EXCEPT !.pc = "outerCatch",
                     !.err = Err("TypeError", {"Cannot read properties of undefined"})]
      [] body.kind = "noText" ->
           Return(r, Value("string", "backend", <<>>, "none", <<>>))
      [] OTHER ->
           Return(r, Value("string", "backend", body.text, "none", <<>>))

\* makeApiRequest without the navigator.onLine check
makeApiRequestNoOnlineCheck(r, mock) ==
    IF PROD THEN Return(r, MockForPrompt(Prompt(r.op, r.query)))
    ELSE IF mock THEN Return(r, MockForPrompt(Prompt(r.op, r.query)))
    ELSE [r EXCEPT !.timer = "armed", !.pc = "nextEndpoint", !.ep = 0,
                   !.lastError = {}]

\* makeApiRequest without the if (this.useMockData) block
makeApiRequestUnguarded(r, mock) ==
    IF PROD THEN Return(r, MockForPrompt(Prompt(r.op, r.query)))
    ELSE IF ~onLine
    THEN [r EXCEPT !.timer = "armed", !.pc = "outerCatch",
                   !.err = Err("Error", MsgNoInternet)]
    ELSE [r EXCEPT !.timer = "armed", !.pc = "nextEndpoint", !.ep = 0,
                   !.lastError = {}]

\* makeApiRequest from its entry; mock is this.useMockData
makeApiRequest(r, mock) ==
    IF PROD THEN Return(r, MockForPrompt(Prompt(r.op, r.query)))
    ELSE IF mock THEN Return(r, MockForPrompt(Prompt(r.op, r.query)))
    ELSE IF ~onLine
    THEN [r EXCEPT !.timer = "armed", !.pc = "outerCatch",
                   !.err = Err("Error", MsgNoInternet)]
    ELSE [r EXCEPT !.timer = "armed", !.pc = "nextEndpoint", !.ep = 0,
                   !.lastError = {}]

-----------------------------------------------------------------------------
(* The facade operations, the probe and a direct makeApiRequest call *)

\* safeJsonParse(response) on what makeApiRequest returned; on an object every
\* stage throws (JSON.parse of "[object Object]", then response.trim and
\* response.match are not functions) and the function returns null
ParseResponse(value) ==
    IF value.type = "string" THEN safeJsonParse(value.text)
    ELSE [found |-> FALSE, value |-> <<>>]

MockOf(op, query) ==
    CASE op = "enhance"    -> MockSmartSearchResult(query)
      [] op = "categorize" -> MockCategories
      [] op = "analyze"    -> MockMarketAnalysis
      [] OTHER             -> MockRecommendations

Returned(value) == Outcome("returned", value, NoError, FALSE, FALSE, 0)

\* a facade that returns what safeJsonParse gave without testing it
ParsedUntested(op, query, parsed) ==
    Returned(Value("json", "backend", parsed.value, "none", <<>>))

\* if (result) return result; else return the mock
ParsedOrMock(op, query, parsed) ==
    IF Truthy(parsed)
    THEN Returned(Value("json", "backend", parsed.value, "none", <<>>))
    ELSE Returned(MockOf(op, query))

\* a facade operation without its try/catch: the failure reaches the caller
FacadeResultRethrows(op, query, api) ==
    IF api.status = "threw" THEN api
    ELSE IF op = "enhance" /\ api.value.type = "object"
                           /\ api.value.mock = "SmartSearchResult"
    THEN Returned(api.value)
    ELSE ParsedOrMock(op, query, ParseResponse(api.value))

\* the part of a facade operation after await this.makeApiRequest(prompt)
FacadeResult(op, query, api) ==
    IF api.status = "threw" THEN Returned(MockOf(op, query))
    ELSE IF op = "enhance" /\ api.value.type = "object"
                           /\ api.value.mock = "SmartSearchResult"
    THEN Returned(api.value)
    ELSE ParsedOrMock(op, query, ParseResponse(api.value))

Boolean(b) ==
    Value("boolean", "none", IF b THEN <<"true">> ELSE <<"false">>, "none", <<>>)

\* a testApiConnection whose catch block returns true
ProbeResultIgnoresFailure(api) == Returned(Boolean(TRUE))

\* testApiConnection after the await: response.substring(0, 100) needs a string
ProbeResult(api) ==
    Returned(Boolean(api.status = "returned" /\ api.value.type = "string"))

\* the caller's continuation once makeApiRequest has settled
Finish(r) ==
    [r EXCEPT !.pc = "done",
              !.result = IF r.op \in FacadeOps THEN FacadeResult(r.op, r.query, r.api)
                         ELSE IF r.op = "test" THEN ProbeResult(r.api)
                         ELSE r.api]

\* a facade operation from its entry; mock is this.useMockData
Facade(r, mock) ==
    IF PROD \/ mock
    THEN [r EXCEPT !.pc = "done", !.result = Returned(MockOf(r.op, r.query))]
    ELSE makeApiRequest(r, mock)

\* testApiConnection from its entry
testApiConnection(r, mock) ==
    IF PROD \/ mock
    THEN [r EXCEPT !.pc = "done", !.result = Returned(Boolean(FALSE))]
    ELSE makeApiRequest(r, mock)

Suspended == {"idle", "fetch", "sleep429", "sleepNet", "json", "done"}

\* the code of one block
Block(r) ==
    CASE r.pc = "nextEndpoint"  -> NextEndpoint(r)
      [] r.pc = "retryEntry"    -> RequestWithRetry(r)
      [] r.pc = "attempt"       -> Attempt(r)
      [] r.pc = "catchRetry"    -> CatchRetry(r)
      [] r.pc = "endpointCatch" -> EndpointCatch(r)
      [] r.pc = "afterLoop"     -> AfterLoop(r)
      [] r.pc = "outerCatch"    -> OuterCatch(r)
      [] r.pc = "sentinel"      -> Sentinel(r)
      [] r.pc = "apiDone"       -> Finish(r)
      [] OTHER                  -> r

RECURSIVE Run(_)

RunOn(r) == IF r.pc \in Suspended THEN r ELSE Run(Block(r))

\* run to the next suspension point, or to the end
Run(r) == Then(r, RunOn)

\* the probe's then-callback: if (!success) this.useMockData = true
ProbeFailed(r) ==
    r.pc = "done" /\ r.op = "test" /\ r.result.value.text = <<"false">>

\* a then-callback that assigns the probe's verdict: this.useMockData = !success
MockAfterProbeAssigns(r, mock) ==
    IF r.pc = "done" /\ r.op = "test" THEN ProbeFailed(r)
    ELSE IF r.pc = "done" /\ r.api.forced THEN forceMockMode(mock)
    ELSE mock

\* useMockData after execution r took a step from a state where it was mock:
\* forceMockMode on the way, and the probe's then-callback
MockAfter(r, mock) ==
    IF ProbeFailed(r) THEN TRUE
    ELSE IF r.pc = "done" /\ r.api.forced THEN forceMockMode(mock)
    ELSE mock

-----------------------------------------------------------------------------
(* The state machine *)

Statuses == {"200", "429", "500"}

\* no Mock Synthesis call is being looked at
NoSynth == [fn |-> "none"]

Init ==
    /\ PROD \in BOOLEAN
    /\ configKey \in Keys
    /\ instance = 0
    /\ apiKey = <<>>
    /\ useMockData = FALSE
    /\ onLine \in BOOLEAN
    /\ req = [p \in Procs |-> IdleReq]
    /\ synth = NoSynth

\* the constructor: mock is !this.validateApiKey() (true in production), probe
\* the execution testApiConnection() started, if any.  The then-callback of a
\* probe that ended before its first await runs after the constructor returned.
Construct(mock, probe) ==
    /\ instance' = instance + 1
    /\ apiKey' = IF PROD THEN <<>> ELSE configKey
    /\ useMockData' = mock
    /\ req' = [req EXCEPT ![Probe] = probe]
    /\ UNCHANGED <<synth, PROD, configKey, onLine>>

StartProbe(mock) ==
    IF PROD \/ mock THEN IdleReq
    ELSE Run(testApiConnection([IdleReq EXCEPT !.op = "test"], mock))

Constructor(mock) == Construct(mock, StartProbe(mock))

\* a getInstance that constructs on every call
GetInstanceAlwaysConstructs ==
    Constructor(IF PROD THEN TRUE ELSE ~validateApiKey(configKey))

\* a constructor without the production block: it validates the key always
GetInstanceValidatesInProd ==
    IF instance # 0 THEN UNCHANGED vars
    ELSE Constructor(~validateApiKey(configKey))

\* getInstance(): the first call constructs the service
GetInstance ==
    IF instance # 0 THEN UNCHANGED vars
    ELSE Constructor(IF PROD THEN TRUE ELSE ~validateApiKey(configKey))

\* An execution that has ended (pc "done") hands its result to its caller in the
\* same task, before any other event is handled.
NoneDone == \A p \in Procs : req[p].pc # "done"

\* the step every continuation of execution p ends with
Step(p, to) ==
    /\ NoneDone
    /\ \E r \in {to} :
         /\ req' = [req EXCEPT ![p] = r]
         /\ useMockData' = MockAfter(r, useMockData)
    /\ UNCHANGED <<synth, PROD, configKey, instance, apiKey, onLine>>

\* no execution is in flight
Quiet == \A p \in Procs : req[p].pc = "idle"

\* a caller invokes a facade operation
CallFacade(p) ==
    /\ instance # 0
    /\ Quiet
    /\ \E op \in FacadeOps, q \in Queries :
         Step(p, Run(Facade([IdleReq EXCEPT !.op = op, !.query = q], useMockData)))

\* a caller invokes makeApiRequest itself
CallMakeApiRequest(p) ==
    /\ instance # 0
    /\ Quiet
    /\ \E q \in Queries :
         Step(p, Run(makeApiRequest([IdleReq EXCEPT !.op = "chat", !.query = q],
                                       useMockData)))

\* a caller invokes makeApiRequest while other executions are in flight
CallConcurrently(p) ==
    /\ instance # 0
    /\ req[p].pc = "idle"
    /\ \E q \in Queries :
         Step(p, Run(makeApiRequest([IdleReq EXCEPT !.op = "chat", !.query = q],
                                       useMockData)))

FetchResponds(p) ==
    /\ req[p].pc = "fetch"
    /\ \E status \in Statuses : Step(p, Run(OnResponse(req[p], status)))

FetchFails(p) ==
    /\ req[p].pc = "fetch"
    /\ Step(p, Run(OnTransportFailure(req[p])))

RateLimitSleepEnds(p) ==
    /\ req[p].pc = "sleep429"
    /\ Step(p, Run(Continue(req[p])))

NetworkSleepEnds(p) ==
    /\ req[p].pc = "sleepNet"
    /\ Step(p, Run(Continue(req[p])))

BodyArrives(p) ==
    /\ req[p].pc = "json"
    /\ \E body \in Bodies : Step(p, Run(OnBody(req[p], body)))

\* the 30 s timer of execution p fires
\* a timeout callback that aborts one controller shared by every call
TimeoutFiresSharedController(p) ==
    /\ req[p].timer = "armed"
    /\ NoneDone
    /\ req' = [q \in Procs |->
                 IF q = p \/ req[q].timer = "armed" THEN Run(OnTimeout(req[q]))
                 ELSE req[q]]
    /\ useMockData' = MockAfter(req'[p], useMockData)
    /\ UNCHANGED <<synth, PROD, configKey, instance, apiKey, onLine>>

TimeoutFires(p) ==
    /\ req[p].timer = "armed"
    /\ Step(p, Run(OnTimeout(req[p])))

\* the caller (for the probe, the constructor's then-callback) has the result;
\* the slot is free for the next call
Deliver(p) ==
    /\ req[p].pc = "done"
    /\ req' = [req EXCEPT ![p] = IdleReq]
    /\ useMockData' = MockAfter(req[p], useMockData)
    /\ UNCHANGED <<synth, PROD, configKey, instance, apiKey, onLine>>

\* a caller invokes forceMockMode()
ForceMockMode ==
    /\ instance # 0
    /\ NoneDone
    /\ useMockData' = forceMockMode(useMockData)
    /\ UNCHANGED <<synth, PROD, configKey, instance, apiKey, onLine, req>>

\* the browser goes offline or online
ConnectivityChanges ==
    /\ NoneDone
    /\ onLine' = ~onLine
    /\ UNCHANGED <<synth, PROD, configKey, instance, apiKey, useMockData, req>>

\* the events of an execution in flight
Progress ==
    \/ \E p \in Procs : Deliver(p)
    \/ \E p \in Procs : FetchResponds(p)
    \/ \E p \in Procs : FetchFails(p)
    \/ \E p \in Procs : RateLimitSleepEnds(p)
    \/ \E p \in Procs : NetworkSleepEnds(p)
    \/ \E p \in Procs : BodyArrives(p)
    \/ \E p \in Procs : TimeoutFires(p)

\* One execution at a time: the probe, then the callers' requests.  What another
\* execution could do to this one, setting useMockData, ForceMockMode does at
\* any moment.
Next ==
    \/ GetInstance
    \/ ForceMockMode
    \/ ConnectivityChanges
    \/ \E p \in Requests : CallFacade(p)
    \/ \E p \in Requests : CallMakeApiRequest(p)
    \/ Progress

Spec == Init /\ [][Next]_vars

\* The probe and the callers' makeApiRequest executions interleaved at will.
NextConc ==
    \/ GetInstance
    \/ ForceMockMode
    \/ ConnectivityChanges
    \/ \E p \in Requests : CallConcurrently(p)
    \/ Progress

SpecConc == Init /\ [][NextConc]_vars

\* a fetch in flight settles: it resolves, rejects, or the timeout aborts it
NetworkCallSettles(p) ==
    \/ FetchResponds(p)
    \/ FetchFails(p)
    \/ (req[p].pc = "fetch" /\ TimeoutFires(p))

\* The event loop runs every continuation that is ready: a settled fetch, a
\* backoff timer that fired, a body that was read, a result to hand over.
Fairness ==
    \A p \in Procs :
        /\ WF_vars(NetworkCallSettles(p))
        /\ WF_vars(RateLimitSleepEnds(p))
        /\ WF_vars(NetworkSleepEnds(p))
        /\ WF_vars(BodyArrives(p))
        /\ WF_vars(Deliver(p))

FairSpec == Spec /\ Fairness

-----------------------------------------------------------------------------
(* Mock Synthesis.  A query is a sequence of characters; a RegExp of       *)
(* alternatives with the i flag is the set of its alternatives.  A         *)
(* confidence is in hundredths (95 for 0.95), Math.random() in tenths.     *)

toLowerCase(s) ==
    [i \in 1..Len(s) |->
        CASE s[i] = "P" -> "p" [] s[i] = "I" -> "i" [] s[i] = "M" -> "m"
          [] OTHER -> s[i]]

\* the word occurs in the string
Contains(s, word) ==
    \E i \in 1..(Len(s) - Len(word) + 1) : \A j \in 1..Len(word) : s[i + j - 1] = word[j]

\* /word|word|.../i.test(query)
Test(words, query) ==
    \E lower \in {toLowerCase(query)} : \E word \in words : Contains(lower, word)

isElectronics(query) ==
    Test({<<"p", "h", "o", "n", "e">>, <<"l", "a", "p", "t", "o", "p">>, <<"t", "a", "b", "l", "e", "t">>, <<"t", "v">>, <<"c", "a", "m", "e", "r", "a">>, <<"h", "e", "a", "d", "p", "h", "o", "n", "e">>,
          <<"s", "p", "e", "a", "k", "e", "r">>, <<"w", "a", "t", "c", "h">>, <<"g", "a", "m", "i", "n", "g">>, <<"c", "o", "n", "s", "o", "l", "e">>, <<"m", "o", "n", "i", "t", "o", "r">>}, query)
isApple(query) ==
    Test({<<"i", "p", "h", "o", "n", "e">>, <<"i", "p", "a", "d">>, <<"m", "a", "c", "b", "o", "o", "k">>, <<"a", "p", "p", "l", "e">>, <<"a", "i", "r", "p", "o", "d", "s">>}, query)
isClothing(query) ==
    Test({<<"s", "h", "i", "r", "t">>, <<"j", "e", "a", "n", "s">>, <<"d", "r", "e", "s", "s">>, <<"s", "h", "o", "e", "s">>, <<"j", "a", "c", "k", "e", "t">>, <<"c", "l", "o", "t", "h", "i", "n", "g">>,
          <<"f", "a", "s", "h", "i", "o", "n">>}, query)
isHome(query) ==
    Test({<<"f", "u", "r", "n", "i", "t", "u", "r", "e">>, <<"k", "i", "t", "c", "h", "e", "n">>, <<"h", "o", "m", "e">>, <<"d", "e", "c", "o", "r">>, <<"a", "p", "p", "l", "i", "a", "n", "c", "e">>}, query)
isBook(query) == Test({<<"b", "o", "o", "k">>, <<"n", "o", "v", "e", "l">>, <<"t", "e", "x", "t", "b", "o", "o", "k">>, <<"g", "u", "i", "d", "e">>}, query)
isExpensive(query) ==
    Test({<<"p", "r", "o">>, <<"m", "a", "x">>, <<"u", "l", "t", "r", "a">>, <<"p", "r", "e", "m", "i", "u", "m">>, <<"f", "l", "a", "g", "s", "h", "i", "p">>}, query)

\* a price table whose default bracket has its bounds the other way round
priceRangeOfReversedDefault(query) ==
    IF isApple(query) /\ isExpensive(query) THEN <<"₹", "1", ",", "0", "0", ",", "0", "0", "0", " ", "-", " ", "₹", "2", ",", "0", "0", ",", "0", "0", "0">>
    ELSE IF isElectronics(query) /\ isExpensive(query) THEN <<"₹", "5", "0", ",", "0", "0", "0", " ", "-", " ", "₹", "1", ",", "5", "0", ",", "0", "0", "0">>
    ELSE IF isElectronics(query) THEN <<"₹", "1", "5", ",", "0", "0", "0", " ", "-", " ", "₹", "8", "0", ",", "0", "0", "0">>
    ELSE IF isClothing(query) THEN <<"₹", "5", "0", "0", " ", "-", " ", "₹", "5", ",", "0", "0", "0">>
    ELSE IF isHome(query) THEN <<"₹", "2", ",", "0", "0", "0", " ", "-", " ", "₹", "5", "0", ",", "0", "0", "0">>
    ELSE IF isBook(query) THEN <<"₹", "2", "0", "0", " ", "-", " ", "₹", "2", ",", "0", "0", "0">>
    ELSE <<"₹", "2", "5", ",", "0", "0", "0", " ", "-", " ", "₹", "1", ",", "0", "0", "0">>

\* the six tests of generateDynamicMarketAnalysis on one query
flagsOf(query) ==
    [isElectronics |-> isElectronics(query), isApple |-> isApple(query),
     isClothing |-> isClothing(query), isHome |-> isHome(query),
     isBook |-> isBook(query), isExpensive |-> isExpensive(query)]

\* a chain with a bracket of its own for Apple products without a premium word
priceRangeForAppleApart(flags) ==
    IF flags.isApple /\ flags.isExpensive THEN <<"₹", "1", ",", "0", "0", ",", "0", "0", "0", " ", "-", " ", "₹", "2", ",", "0", "0", ",", "0", "0", "0">>
    ELSE IF flags.isApple THEN <<"₹", "4", "0", ",", "0", "0", "0", " ", "-", " ", "₹", "1", ",", "0", "0", ",", "0", "0", "0">>
    ELSE IF flags.isElectronics /\ flags.isExpensive THEN <<"₹", "5", "0", ",", "0", "0", "0", " ", "-", " ", "₹", "1", ",", "5", "0", ",", "0", "0", "0">>
    ELSE IF flags.isElectronics THEN <<"₹", "1", "5", ",", "0", "0", "0", " ", "-", " ", "₹", "8", "0", ",", "0", "0", "0">>
    ELSE IF flags.isClothing THEN <<"₹", "5", "0", "0", " ", "-", " ", "₹", "5", ",", "0", "0", "0">>
    ELSE IF flags.isHome THEN <<"₹", "2", ",", "0", "0", "0", " ", "-", " ", "₹", "5", "0", ",", "0", "0", "0">>
    ELSE IF flags.isBook THEN <<"₹", "2", "0", "0", " ", "-", " ", "₹", "2", ",", "0", "0", "0">>
    ELSE <<"₹", "1", ",", "0", "0", "0", " ", "-", " ", "₹", "2", "5", ",", "0", "0", "0">>

\* let priceRange: the if / else if chain of generateDynamicMarketAnalysis
priceRangeFor(flags) ==
    IF flags.isApple /\ flags.isExpensive THEN <<"₹", "1", ",", "0", "0", ",", "0", "0", "0", " ", "-", " ", "₹", "2", ",", "0", "0", ",", "0", "0", "0">>
    ELSE IF flags.isElectronics /\ flags.isExpensive THEN <<"₹", "5", "0", ",", "0", "0", "0", " ", "-", " ", "₹", "1", ",", "5", "0", ",", "0", "0", "0">>
    ELSE IF flags.isElectronics THEN <<"₹", "1", "5", ",", "0", "0", "0", " ", "-", " ", "₹", "8", "0", ",", "0", "0", "0">>
    ELSE IF flags.isClothing THEN <<"₹", "5", "0", "0", " ", "-", " ", "₹", "5", ",", "0", "0", "0">>
    ELSE IF flags.isHome THEN <<"₹", "2", ",", "0", "0", "0", " ", "-", " ", "₹", "5", "0", ",", "0", "0", "0">>
    ELSE IF flags.isBook THEN <<"₹", "2", "0", "0", " ", "-", " ", "₹", "2", ",", "0", "0", "0">>
    ELSE <<"₹", "1", ",", "0", "0", "0", " ", "-", " ", "₹", "2", "5", ",", "0", "0", "0">>

priceRangeOf(query) == Then(flagsOf(query), priceRangeFor)

trends == <<"increasing", "decreasing", "stable">>

\* trends[Math.floor(Math.random() * trends.length)]
RandomTrend(random) == trends[((random * Len(trends)) \div 10) + 1]

\* a trend drawn at random for every kind of product
marketTrendOfAnyProduct(query, currentMonth, random) == RandomTrend(random)

marketTrendOf(query, currentMonth, random) ==
    IF isElectronics(query)
    THEN IF currentMonth >= 8 THEN "decreasing" ELSE "stable"
    ELSE IF isClothing(query)
    THEN IF currentMonth = 1 \/ currentMonth = 6 THEN "decreasing" ELSE "stable"
    ELSE RandomTrend(random)

\* <<bestTimeToBuy, pricePrediction>>
timingOf(query, currentMonth, currentDate) ==
    IF isElectronics(query)
    THEN IF currentMonth >= 9 /\ currentMonth <= 11
         THEN <<"Buy now during festive season",
                "Prices at yearly low, good time to purchase">>
         ELSE IF currentMonth >= 0 /\ currentMonth <= 2
         THEN <<"Wait 1-2 months for better deals",
                "Prices may drop 5-10% in coming months">>
         ELSE IF currentMonth >= 6 /\ currentMonth <= 8
         THEN <<"Wait 3-4 weeks for festive sales",
                "Major discounts expected during upcoming festivals">>
         ELSE <<"Current prices are moderate, can buy now",
                "Prices expected to remain stable for next 2-3 months">>
    ELSE IF isClothing(query)
    THEN IF currentMonth = 0 \/ currentMonth = 5 \/ currentMonth = 6
         THEN <<"Buy now during seasonal sale",
                "End of season clearance offers available">>
         ELSE IF currentMonth >= 9 /\ currentMonth <= 11
         THEN <<"Wait 4-6 weeks for year-end sales",
                "Better discounts expected during winter sales">>
         ELSE <<"Wait 2-3 weeks for next sale period",
                "Seasonal sales coming up with 20-40% discounts">>
    ELSE IF isHome(query)
    THEN IF currentMonth >= 9 /\ currentMonth <= 11
         THEN <<"Buy now during festive home decor season",
                "Good deals available for home improvement">>
         ELSE <<"Wait 3-5 weeks for better offers",
                "Home appliance sales expected soon">>
    ELSE IF isBook(query)
    THEN <<"Buy now, book prices are generally stable",
           "Book prices rarely fluctuate significantly">>
    ELSE IF currentDate <= 10
         THEN <<"Wait 2-3 weeks for mid-month offers",
                "Better deals typically available mid-month">>
         ELSE IF currentDate <= 20
         THEN <<"Good time to buy, prices are competitive",
                "Current pricing is reasonable for this category">>
         ELSE <<"Wait 1-2 weeks for month-end clearance",
                "Month-end sales may offer additional discounts">>

insightsOf(query, currentMonth) ==
    IF isElectronics(query)
    THEN <<"New model launches can trigger price drops on older versions">>
         \o (IF currentMonth >= 8
             THEN <<"Festive season brings the best electronics deals">>
             ELSE <<>>)
         \o <<"Consider refurbished options for significant savings">>
    ELSE IF isClothing(query)
    THEN <<"End-of-season sales offer maximum discounts",
           "Online exclusive deals often beat retail prices">>
    ELSE IF isHome(query)
    THEN <<"Bulk purchases during sales can reduce per-unit cost",
           "Check for installation and warranty offers">>
    ELSE <<"Compare prices across multiple platforms",
           "Look for cashback and reward point offers">>

\* currentMonth is new Date().getMonth(), currentDate new Date().getDate()
generateDynamicMarketAnalysis(query, currentMonth, currentDate, random) ==
    [priceRange |-> priceRangeOf(query),
     marketTrend |-> marketTrendOf(query, currentMonth, random),
     bestTimeToBuy |-> timingOf(query, currentMonth, currentDate)[1],
     pricePrediction |-> timingOf(query, currentMonth, currentDate)[2],
     marketInsights |-> insightsOf(query, currentMonth)]

\* an entry whose confidence is a percentage
ProductCategoryInPercent(category, confidence, subcategory) ==
    [category |-> category, confidence |-> confidence * 100,
     subcategory |-> subcategory]

ProductCategory(category, confidence, subcategory) ==
    [category |-> category, confidence |-> confidence, subcategory |-> subcategory]

generateDynamicCategories(query) ==
    IF Test({<<"p", "h", "o", "n", "e">>, <<"s", "m", "a", "r", "t", "p", "h", "o", "n", "e">>, <<"m", "o", "b", "i", "l", "e">>}, query)
    THEN <<ProductCategory("Electronics", 95, "Smartphones"),
           ProductCategory("Mobile Devices", 88, "Communication")>>
    ELSE IF Test({<<"l", "a", "p", "t", "o", "p">>, <<"c", "o", "m", "p", "u", "t", "e", "r">>, <<"p", "c">>}, query)
    THEN <<ProductCategory("Electronics", 92, "Computers"),
           ProductCategory("Technology", 85, "Computing")>>
    ELSE IF Test({<<"t", "v">>, <<"t", "e", "l", "e", "v", "i", "s", "i", "o", "n">>, <<"m", "o", "n", "i", "t", "o", "r">>}, query)
    THEN <<ProductCategory("Electronics", 90, "Display"),
           ProductCategory("Home Entertainment", 82, "Audio Visual")>>
    ELSE IF Test({<<"h", "e", "a", "d", "p", "h", "o", "n", "e">>, <<"e", "a", "r", "p", "h", "o", "n", "e">>, <<"s", "p", "e", "a", "k", "e", "r">>, <<"a", "u", "d", "i", "o">>}, query)
    THEN <<ProductCategory("Electronics", 88, "Audio"),
           ProductCategory("Accessories", 75, "Audio Accessories")>>
    ELSE IF Test({<<"w", "a", "t", "c", "h">>, <<"s", "m", "a", "r", "t", "w", "a", "t", "c", "h">>}, query)
    THEN <<ProductCategory("Electronics", 85, "Wearables"),
           ProductCategory("Fashion", 70, "Accessories")>>
    ELSE IF Test({<<"s", "h", "i", "r", "t">>, <<"j", "e", "a", "n", "s">>, <<"d", "r", "e", "s", "s">>, <<"c", "l", "o", "t", "h", "i", "n", "g">>, <<"f", "a", "s", "h", "i", "o", "n">>}, query)
    THEN <<ProductCategory("Fashion", 90, "Apparel"),
           ProductCategory("Clothing", 85, "Casual Wear")>>
    ELSE IF Test({<<"s", "h", "o", "e", "s">>, <<"s", "n", "e", "a", "k", "e", "r">>, <<"f", "o", "o", "t", "w", "e", "a", "r">>}, query)
    THEN <<ProductCategory("Fashion", 88, "Footwear"),
           ProductCategory("Sports", 72, "Athletic Wear")>>
    ELSE IF Test({<<"b", "o", "o", "k">>, <<"n", "o", "v", "e", "l">>, <<"g", "u", "i", "d", "e">>}, query)
    THEN <<ProductCategory("Books", 92, "Literature"),
           ProductCategory("Education", 78, "Learning Materials")>>
    ELSE IF Test({<<"f", "u", "r", "n", "i", "t", "u", "r", "e">>, <<"h", "o", "m", "e">>, <<"d", "e", "c", "o", "r">>}, query)
    THEN <<ProductCategory("Home & Garden", 87, "Furniture"),
           ProductCategory("Lifestyle", 75, "Home Improvement")>>
    ELSE <<ProductCategory("General", 80, "Consumer Goods"),
           ProductCategory("Retail", 70, "Miscellaneous")>>

generateDynamicSearchTips(query) ==
    <<"Compare prices across multiple platforms">> \o
    (IF Test({<<"p", "h", "o", "n", "e">>, <<"l", "a", "p", "t", "o", "p">>, <<"e", "l", "e", "c", "t", "r", "o", "n", "i", "c", "s">>}, query)
     THEN <<"Check for student discounts and educational offers",
            "Look for exchange offers with old devices",
            "Consider extended warranty options",
            "Check EMI options for expensive purchases">>
     ELSE IF Test({<<"c", "l", "o", "t", "h", "i", "n", "g">>, <<"f", "a", "s", "h", "i", "o", "n">>}, query)
     THEN <<"Check size charts carefully before ordering",
            "Look for seasonal clearance sales",
            "Read fabric and care instructions",
            "Check return and exchange policies">>
     ELSE IF Test({<<"b", "o", "o", "k">>}, query)
     THEN <<"Consider digital versions for instant access",
            "Check for used book options",
            "Look for bundle deals with related titles">>
     ELSE <<"Read customer reviews and ratings",
            "Check for cashback offers and reward points",
            "Look for bulk purchase discounts">>)

\* the indexes at which the separator starts in the string
SeparatorAt(s, sep) ==
    {i \in 1..(Len(s) - Len(sep) + 1) : SubSeq(s, i, i + Len(sep) - 1) = sep}

\* s.split(sep) for a string with at most one separator in it
Split(s, sep) ==
    IF SeparatorAt(s, sep) = {} THEN <<s>>
    ELSE <<SubSeq(s, 1, Min(SeparatorAt(s, sep)) - 1),
           SubSeq(s, Min(SeparatorAt(s, sep)) + Len(sep), Len(s))>>

\* parts[k] || fallback: a missing part (undefined) and '' are falsy
PartOr(parts, k, fallback) ==
    IF k <= Len(parts) /\ parts[k] # <<>> THEN parts[k] ELSE fallback

ProductRecommendation(productName, reason, category, estimatedPrice, confidence) ==
    [productName |-> productName, reason |-> reason, category |-> category,
     estimatedPrice |-> estimatedPrice, confidence |-> confidence]

\* the object literal generateMockSmartSearchResult returns
SmartSearchResult(query, categories, marketAnalysis) ==
    [enhancedQuery |-> query \o <<" ", "b", "e", "s", "t", " ", "d", "e", "a", "l", "s", " ", "2", "0", "2", "4">>,
     categories |-> categories,
     marketAnalysis |-> marketAnalysis,
     recommendations |->
        <<ProductRecommendation(query \o <<" ", "P", "r", "o", " ", "M", "a", "x">>,
              "Premium variant with better features",
              IF Len(categories) > 0 THEN categories[1].category ELSE "Electronics",
              PartOr(Split(marketAnalysis.priceRange, <<" ", "-", " ">>), 2, <<"₹", "1", ",", "2", "0", ",", "0", "0", "0">>), 85),
          ProductRecommendation(query \o <<" ", "L", "i", "t", "e">>,
              "Budget-friendly alternative",
              IF Len(categories) > 0 THEN categories[1].category ELSE "Electronics",
              PartOr(Split(marketAnalysis.priceRange, <<" ", "-", " ">>), 1, <<"₹", "6", "0", ",", "0", "0", "0">>), 78)>>,
     searchTips |-> generateDynamicSearchTips(query)]

generateMockSmartSearchResult(query, currentMonth, currentDate, random) ==
    SmartSearchResult(query, generateDynamicCategories(query),
        generateDynamicMarketAnalysis(query, currentMonth, currentDate, random))

\* the queries Mock Synthesis is called with
SynthQueries ==
    Queries \cup
    { GeneralProduct, <<"i", "P", "h", "o", "n", "e", " ", "1", "5", " ", "P", "r", "o">>, <<"i", "p", "a", "d">>, <<"m", "a", "c", "b", "o", "o", "k", " ", "p", "r", "o">>, <<"a", "p", "p", "l", "e">>,
      <<"g", "a", "m", "i", "n", "g", " ", "l", "a", "p", "t", "o", "p", " ", "u", "l", "t", "r", "a">>, <<"s", "m", "a", "r", "t", " ", "t", "v">>, <<"s", "p", "e", "a", "k", "e", "r", " ", "w", "a", "t", "c", "h">>, <<"s", "m", "a", "r", "t", "w", "a", "t", "c", "h">>,
      <<"f", "a", "s", "h", "i", "o", "n", " ", "s", "h", "o", "e", "s">>, <<"s", "n", "e", "a", "k", "e", "r">>, <<"n", "o", "v", "e", "l">>, <<"h", "o", "m", "e", " ", "d", "e", "c", "o", "r">>, <<"k", "i", "t", "c", "h", "e", "n">>,
      <<"x", "y", "z">>, <<>> }

\* new Date().getMonth()
Months == 0..11

\* new Date().getDate(): the days around the 10th and the 20th
Days == {10, 11, 20, 21}

\* Math.random(), in tenths
Randoms == {3, 4, 7}

\* calls of one function looked at in a row
MaxSynthCalls == 2

\* The service with mock mode forced, and one query on one calendar date.
InitSynth ==
    /\ PROD = FALSE
    /\ configKey = <<"A", "I", "z", "a">> \o Chars(6, "x")
    /\ instance = 1
    /\ apiKey = IF PROD THEN <<>> ELSE configKey
    /\ useMockData = TRUE
    /\ onLine = TRUE
    /\ req = [p \in Procs |-> IdleReq]
    /\ \E query \in SynthQueries, month \in Months, day \in Days :
         synth = [fn |-> "none", query |-> query, month |-> month, day |-> day,
                  calls |-> 0, result |-> NoSynth, previous |-> NoSynth]

\* one call of a Mock Synthesis function, which draws Math.random() anew; the
\* result of the call before it, of the same function, is kept beside it
Synthesize(fn, result) ==
    /\ synth.calls < MaxSynthCalls
    /\ synth.fn \in {"none", fn}
    /\ synth' = [synth EXCEPT !.fn = fn, !.calls = @ + 1, !.result = result,
                              !.previous = synth.result]
    /\ UNCHANGED <<PROD, configKey, instance, apiKey, useMockData, onLine, req>>

\* enhanceSearchQuery(query) in mock mode
EnhanceInMockMode ==
    /\ PROD \/ useMockData
    /\ \E random \in Randoms :
         Synthesize("enhanceSearchQuery",
             generateMockSmartSearchResult(synth.query, synth.month, synth.day, random))

CallGenerateDynamicMarketAnalysis ==
    \E random \in Randoms :
        Synthesize("generateDynamicMarketAnalysis",
            generateDynamicMarketAnalysis(synth.query, synth.month, synth.day, random))

CallGenerateDynamicCategories ==
    Synthesize("generateDynamicCategories",
        generateDynamicCategories(synth.query))

NextSynth ==
    \/ EnhanceInMockMode
    \/ CallGenerateDynamicMarketAnalysis
    \/ CallGenerateDynamicCategories

SpecSynth == InitSynth /\ [][NextSynth]_vars

-----------------------------------------------------------------------------
(* Properties *)

\* an execution that has started and has not ended
InFlight(p) == req[p].pc \notin {"idle", "done"}

\* execution p ended in this state
Ended(p) == req[p].pc = "done"

\* in this step execution p hands a request to fetch
IssuesCall(p) ==
    /\ req'[p].pc = "fetch"
    /\ \/ req[p].pc # "fetch"
       \/ req'[p].ep # req[p].ep
       \/ req'[p].attempt # req[p].attempt

\* in this step a caller starts execution p
Starts(p) == req[p].pc = "idle" /\ req'[p].pc # "idle"

IsMockResult(outcome) == outcome.status = "returned" /\ outcome.value.src = "mock"

\* C1: a facade operation that has ended has returned a value, whatever its
\* makeApiRequest ended with (offline, timeout, all endpoints failed, bad
\* envelope, unparsable text, the rate-limit sentinel): it never throws.
FacadeNeverThrows ==
    \A p \in Requests :
        (Ended(p) /\ req[p].op \in FacadeOps) => req[p].result.status = "returned"

\* a facade operation ended after its makeApiRequest threw
FacadeSwallowedFailure ==
    \E p \in Requests :
        /\ Ended(p) /\ req[p].op \in FacadeOps
        /\ req[p].api.status = "threw"
        /\ req[p].result.status = "returned"

\* C2: no execution hands a request to fetch in a step taken while useMockData
\* is true.
NoCallInMockMode ==
    [][\A p \in Procs : IssuesCall(p) => ~useMockData]_vars

\* C3: once useMockData is true it is true in every later state.
MockModeIsPermanent == [][useMockData => useMockData']_vars

\* the flag is set in a service that started live, and an execution has ended
\* since
MockModeSetWhileLive ==
    /\ useMockData /\ ~PROD /\ validateApiKey(apiKey)
    /\ \E p \in Procs : Ended(p)

\* C4: a facade operation or a makeApiRequest call that starts while PROD or
\* useMockData is true ends in the step that starts it, so without a fetch,
\* and returns a Mock Synthesis result.
MockStartStaysOffline ==
    [][\A p \in Requests :
          (Starts(p) /\ (PROD \/ useMockData)) =>
              (req'[p].pc = "done" /\ IsMockResult(req'[p].result))]_vars

\* an execution that started in mock mode (no timer was armed) has ended
EndedWithoutNetwork ==
    \E p \in Requests :
        /\ Ended(p) /\ req[p].timer = "none"
        /\ (PROD \/ useMockData)
        /\ IsMockResult(req[p].result)

\* the property names of the interface each facade operation promises; the two
\* array results promise them of every element
SmartSearchResultFields ==
    {"\"enhancedQuery\"", "\"categories\"", "\"marketAnalysis\"",
     "\"recommendations\"", "\"searchTips\""}

MarketAnalysisFields ==
    {"\"priceRange\"", "\"marketTrend\"", "\"bestTimeToBuy\"",
     "\"pricePrediction\"", "\"marketInsights\""}

IsArray(c) == Len(c) > 0 /\ c[1] = "["

\* a value parsed from the backend's text has the shape op promises
ShapedJson(op, c) ==
    CASE op = "enhance" -> SmartSearchResultFields \subseteq TopKeys(c)
      [] op = "analyze" -> MarketAnalysisFields \subseteq TopKeys(c)
      [] OTHER          -> IsArray(c)

FullyShaped(op, value) ==
    \/ value.type = "object" /\ value = MockOf(op, value.query)
    \/ value.type = "json" /\ ShapedJson(op, value.text)

\* C5: every value a facade operation returns is a fully-shaped entity of the
\* operation's type; enhanceSearchQuery returns an object with the five
\* SmartSearchResult fields for every text the backend answers with.
FacadeResultFullyShaped ==
    \A p \in Requests :
        (Ended(p) /\ req[p].op \in FacadeOps /\ req[p].result.status = "returned")
            => FullyShaped(req[p].op, req[p].result.value)

\* C6: under FairSpec (every fetch settles, every backoff timer fires) a
\* facade operation in flight eventually ends.
FacadeTerminates ==
    \A p \in Requests :
        (InFlight(p) /\ req[p].op \in FacadeOps) ~> Ended(p)

\* a facade operation ended after every endpoint had been tried and had failed
FacadeEndedAfterAllEndpoints ==
    \E p \in Requests :
        /\ Ended(p) /\ req[p].op \in FacadeOps
        /\ Includes(req[p].api.error.message,
                    "All Gemini API endpoints failed. Last error: ")

\* makeApiRequest threw the Timeout error
IsTimeoutError(outcome) ==
    outcome.status = "threw" /\ outcome.error = Err("Error", MsgTimedOut)

\* in this step the timeout of p fires while a fetch of p is in flight
TimeoutInFlight(p) ==
    req[p].pc = "fetch" /\ req[p].timer = "armed" /\ req'[p].timer = "fired"

\* C7: when the timeout fires while a fetch is in flight (the first one, which
\* no endpoint has answered, or any later one), the fetch is aborted and
\* makeApiRequest ends in that step, throwing the Timeout error.  The timeout
\* that fires during a backoff sleep, with no call in flight, is C8.
InFlightTimeoutIsTimeout ==
    [][\A p \in Procs :
          TimeoutInFlight(p) =>
              /\ req'[p].pc = "done"
              /\ req'[p].api.signalAborted
              /\ IsTimeoutError(req'[p].api)]_vars

\* a makeApiRequest call ended by its timeout, with the Timeout error
TimedOutInFlight ==
    \E p \in Requests :
        /\ Ended(p) /\ req[p].op = "chat" /\ req[p].timer = "fired"
        /\ IsTimeoutError(req[p].result)

\* C8: a makeApiRequest execution whose timeout fired before it ended, during
\* a fetch or during a backoff sleep, ends by throwing the Timeout error and
\* no other.
TimeoutAlwaysTimeoutError ==
    \A p \in Procs :
        (Ended(p) /\ req[p].api.signalAborted) => IsTimeoutError(req[p].api)

\* C9: the first step an execution takes after its cancellation signal fired
\* ends it: no further attempt, sleep or endpoint.
FailsAtFirstStepAfterAbort ==
    [][\A p \in Procs :
          (req[p].aborted /\ req'[p] # req[p]) => req'[p].pc = "done"]_vars

\* C10 as stated: after exactly maxRetries 429 answers the routine has given
\* up, so it never returns the endpoint's successful response.
NoSuccessAfterMaxRetries429s ==
    \A p \in Procs : req[p].rateLimited = maxRetries => req[p].pc # "json"

\* makeRequestWithRetry returned null: makeApiRequest returned the canned reply
ReturnedSentinel(p) ==
    /\ req[p].api.status = "returned"
    /\ req[p].api.value = generateMockResponse(Prompt(req[p].op, req[p].query))
    /\ req[p].api.forced

\* C10, amended: when the endpoint has answered 429 to the first maxRetries + 1
\* calls the routine returns the sentinel and useMockData is true afterwards.
SentinelAfterAllAttempts429 ==
    \A p \in Procs :
        (Ended(p) /\ req[p].api.rateLimited = maxRetries + 1)
            => (ReturnedSentinel(p) /\ useMockData)

\* an execution ended after one endpoint answered 429 to every attempt
EndedRateLimited ==
    \E p \in Procs :
        Ended(p) /\ ~PROD /\ req[p].api.rateLimited = maxRetries + 1

\* in this step the endpoint answers 429 to the last attempt of p, having
\* answered 429 to every attempt before
RateLimitExhausted(p) ==
    /\ req[p].pc = "fetch"
    /\ req[p].attempt = maxRetries /\ req[p].rateLimited = maxRetries
    /\ req'[p].pc = "done" /\ req'[p].api.rateLimited = maxRetries + 1

\* the execution ended on the sentinel (null) of makeRequestWithRetry
IsSentinelOutcome(r) ==
    /\ r.api.status = "returned"
    /\ r.api.value = generateMockResponse(Prompt(r.op, r.query))
    /\ r.api.forced

\* C11: when the endpoint answers 429 to every attempt, the last 429 makes the
\* routine set useMockData and return the sentinel: makeApiRequest ends in
\* that step with the canned reply, neither throwing nor going on with the
\* 429 response.
ExhaustedRateLimitForcesMock ==
    [][\A p \in Procs :
          RateLimitExhausted(p) => (IsSentinelOutcome(req'[p]) /\ useMockData')]_vars

\* a caller's execution ended on the sentinel, and the flag is set
CallerEndedOnSentinel ==
    \E p \in Requests :
        /\ Ended(p) /\ req[p].api.rateLimited = maxRetries + 1
        /\ req[p].api.forced /\ useMockData

\* the calls of p to its current endpoint that failed without a response:
\* every attempt before this one ended in a 429 or in such a failure
TransportFailures(p) == req[p].attempt - req[p].rateLimited

\* C12: a call that fails without a response, when no earlier call to the
\* endpoint failed that way, is followed by the delay before one more call,
\* whatever was answered before (a 429 included); only a second such failure
\* is propagated.
FirstTransportFailureIsRetried ==
    [][\A p \in Procs :
          (FetchFails(p) /\ TransportFailures(p) = 0)
              => req'[p].pc = "sleepNet"]_vars

\* in this step the fetch of p resolves with a response of this status
Responds(p, status) ==
    req[p].pc = "fetch" /\ Step(p, Run(OnResponse(req[p], status)))

\* the statuses of failed responses other than rate limiting
OtherFailures == Statuses \ {"200", "429"}

\* C13: a failed response other than a 429 ends the calls to its endpoint: it
\* is recorded as the endpoint's error and the next step of the execution is
\* the first call to the next endpoint (after the last endpoint, its end).
FailedResponseMovesOn ==
    [][\A p \in Procs : \A status \in OtherFailures :
          Responds(p, status) =>
              IF req[p].ep < Len(endpoints)
              THEN /\ req'[p].pc = "fetch"
                   /\ req'[p].ep = req[p].ep + 1 /\ req'[p].attempt = 0
                   /\ req'[p].lastError = EndpointError(req[p].ep, StatusLine(status))
              ELSE req'[p].pc = "done"]_vars

\* the first call to the second endpoint, after the first answered 500
SecondEndpointAfterFailure ==
    \E p \in Procs :
        /\ req[p].pc = "fetch" /\ req[p].ep = 2 /\ req[p].attempt = 0
        /\ req[p].lastError = EndpointError(1, StatusLine("500"))

\* in this step response.json() of p settles with this body
BodyIs(p, body) ==
    req[p].pc = "json" /\ Step(p, Run(OnBody(req[p], body)))

\* p is at its second endpoint, the first having answered this failure
AfterFirstFailed(p, status) ==
    req[p].ep = 2 /\ req[p].lastError = EndpointError(1, StatusLine(status))

\* makeApiRequest returned this text of the backend
ReturnedText(r, text) ==
    /\ r.pc = "done" /\ r.api.status = "returned"
    /\ r.api.value = Value("string", "backend", text, "none", <<>>)

\* C14: after a failure other than 429 from the first endpoint, a success from
\* the second leads to the body read, not to the third endpoint, and a
\* well-formed body ends makeApiRequest in that step, returning its text.
SecondEndpointSuccessIsReturned ==
    [][\A p \in Procs : \A status \in OtherFailures :
          /\ (AfterFirstFailed(p, status) /\ Responds(p, "200"))
                => (req'[p].pc = "json" /\ req'[p].ep = 2)
          /\ \A text \in Texts :
                (AfterFirstFailed(p, status) /\ BodyIs(p, [kind |-> "text", text |-> text]))
                    => ReturnedText(req'[p], text)]_vars

\* the second endpoint has answered 200 after the first answered 500
SecondEndpointSucceeded ==
    \E p \in Procs :
        req[p].pc = "json" /\ AfterFirstFailed(p, "500")

\* C15: the calls of one execution are ordered.  The first call is attempt 0
\* on the first endpoint; each later call is a higher attempt on the same
\* endpoint or attempt 0 on the next one, made when the call before it has
\* settled; once a response is a success, no call follows.
CallsAreOrdered ==
    [][\A p \in Procs :
          /\ (IssuesCall(p) /\ req[p].pc = "idle")
                => (req'[p].ep = 1 /\ req'[p].attempt = 0)
          /\ (IssuesCall(p) /\ req[p].pc # "idle")
                => \/ req'[p].ep = req[p].ep /\ req'[p].attempt > req[p].attempt
                   \/ req'[p].ep = req[p].ep + 1 /\ req'[p].attempt = 0
          /\ req[p].pc = "json" => req'[p].pc \in {"json", "done"}]_vars

\* the last attempt on the last endpoint is in flight
LastCallInFlight ==
    \E p \in Procs :
        /\ req[p].pc = "fetch"
        /\ req[p].ep = Len(endpoints) /\ req[p].attempt = maxRetries

\* in this step the last endpoint fails, by a response that is not a success
\* or by a transport failure that is not retried, and no timeout has fired
LastEndpointFails(p) ==
    /\ req[p].ep = Len(endpoints)
    /\ ~req[p].aborted /\ req[p].timer # "fired"
    /\ \/ \E status \in OtherFailures : Responds(p, status)
       \/ FetchFails(p) /\ req'[p].pc # "sleepNet"

\* the errors of makeApiRequest other than AllEndpointsFailed
OtherTaxonomyErrors ==
    {Err("Error", MsgTimedOut), Err("Error", MsgNetworkError),
     Err("Error", MsgNoInternetFull), Err("Error", MsgInvalidStructure)}

\* C16: when the last endpoint fails too and no timeout has fired,
\* makeApiRequest throws the error 'All Gemini API endpoints failed. Last
\* error: ...', with the last endpoint's failure in it, and not one of the
\* Timeout, NetworkUnavailable or MalformedEnvelope errors, whether the last
\* failure was a response or a transport failure.
AllFailedIsItsOwnError ==
    [][\A p \in Procs :
          LastEndpointFails(p) =>
              /\ req'[p].pc = "done"
              /\ req'[p].api.status = "threw"
              /\ Includes(req'[p].api.error.message,
                          "All Gemini API endpoints failed. Last error: ")
              /\ Includes(req'[p].api.error.message, endpoints[Len(endpoints)])
              /\ req'[p].api.error \notin OtherTaxonomyErrors]_vars

\* the bodies without the path candidates[0].content.parts[0].text: no
\* candidates or no content, no parts, a first part without text
MalformedEnvelopes == {body \in Bodies : body.kind \in {"noCandidates", "noParts", "noText"}}

\* C17: when the body of a successful response lacks the path
\* candidates[0].content.parts[0].text, makeApiRequest ends in that step by
\* throwing an error, so that no retry and no call to a later endpoint follows.
MalformedEnvelopeFails ==
    [][\A p \in Procs : \A body \in MalformedEnvelopes :
          BodyIs(p, body) =>
              req'[p].pc = "done" /\ req'[p].api.status = "threw"]_vars

\* makeApiRequest threw the connectivity error
IsOfflineError(outcome) ==
    outcome.status = "threw" /\ outcome.error = Err("Error", MsgNoInternetFull)

\* C18: an execution that starts in live mode while navigator.onLine is false
\* ends in its first step, makeApiRequest having thrown 'No internet
\* connection. Please check your network.': it reaches no fetch and no
\* backoff sleep.
OfflineFailsWithoutCall ==
    [][\A p \in Requests :
          (Starts(p) /\ ~PROD /\ ~useMockData /\ ~onLine)
              => (req'[p].pc = "done" /\ IsOfflineError(req'[p].api))]_vars

\* a direct makeApiRequest call ended with the connectivity error
EndedOffline ==
    \E p \in Requests :
        /\ Ended(p) /\ req[p].op = "chat" /\ ~PROD /\ ~onLine
        /\ IsOfflineError(req[p].result)

\* in this step the timeout of execution p fires
TimerFires(p) == req[p].timer = "armed" /\ req'[p].timer = "fired"

\* C19: each makeApiRequest execution has its own controller and timer.  The
\* step in which the timeout of p fires leaves every other execution as it
\* was, its call in flight included; if a fetch of p is in flight, p ends with
\* the Timeout error; and an execution that ends with the Timeout error does
\* so on its own timer.
TimeoutIsPerRequest ==
    [][\A p \in Procs :
          /\ TimerFires(p) =>
                /\ \A q \in Procs \ {p} : req'[q] = req[q]
                /\ req[p].pc = "fetch" => IsTimeoutError(req'[p].api)
          /\ (req[p].pc # "done" /\ req'[p].pc = "done" /\ IsTimeoutError(req'[p].api))
                => (req'[p].timer = "fired" /\ req'[p].api.signalAborted)]_vars

\* one execution has ended by its timeout while a fetch of another one, whose
\* timer is still armed, is in flight
TimedOutBesideLiveCall ==
    \E p, q \in Procs :
        /\ p # q
        /\ Ended(p) /\ req[p].timer = "fired" /\ IsTimeoutError(req[p].api)
        /\ req[q].pc = "fetch" /\ req[q].timer = "armed" /\ ~req[q].aborted

\* C20: in a production build, once the service is constructed, useMockData is
\* true and apiKey is the empty string in every state; every execution ends in
\* the step that starts it, so that none is ever waiting for a fetch, a backoff
\* sleep or a response body; and makeRequestWithRetry, entered with any
\* request, returns null at once, the value that tells makeApiRequest to use
\* mock data.
ProdIsLockedDown ==
    (PROD /\ instance # 0) =>
        /\ useMockData
        /\ apiKey = <<>>
        /\ \A p \in Procs : ~InFlight(p)
        /\ \A op \in Ops, q \in Queries :
              RequestWithRetry([IdleReq EXCEPT !.op = op, !.query = q]).pc = "sentinel"

\* in a production build a direct makeApiRequest call has ended with a mock
EndedInProd ==
    \E p \in Requests :
        /\ PROD /\ instance # 0
        /\ Ended(p) /\ req[p].op = "chat" /\ IsMockResult(req[p].result)

\* in this step the constructor runs
Constructs == instance = 0 /\ instance' # 0

\* C21: the constructor starts the probe exactly when the build is not a
\* production build and the configured key is valid, and is finished while the
\* probe's call is still in flight; no later step starts a probe; and when the
\* probe's makeApiRequest has thrown, whatever the error, useMockData is true
\* once the then-callback has run, at the latest.
ProbeStartedOnceInBackground ==
    [][/\ Constructs =>
             /\ (req'[Probe] # IdleReq) <=> (~PROD /\ validateApiKey(configKey))
             /\ (~PROD /\ validateApiKey(configKey) /\ onLine)
                   => (req'[Probe].op = "test" /\ req'[Probe].pc = "fetch")
       /\ (instance # 0 /\ req[Probe].pc = "idle") => req'[Probe].pc = "idle"
       /\ (instance # 0 /\ req[Probe].pc = "done" /\ req[Probe].api.status = "threw")
             => (req'[Probe].pc = "idle" /\ useMockData')]_vars

\* the probe has ended on a malformed envelope and mock mode is on
ProbeFailedOnEnvelope ==
    /\ instance # 0 /\ useMockData
    /\ req[Probe].pc = "done" /\ req[Probe].op = "test"
    /\ req[Probe].api.error = Err("Error", MsgInvalidStructure)

\* the key is present, has at least 10 characters and starts with 'AIza'
IsWellFormedKey(key) ==
    /\ key # <<>>
    /\ Len(key) >= 10
    /\ key[1] = "A" /\ key[2] = "I" /\ key[3] = "z" /\ key[4] = "a"

\* C22: when the constructor has run in a build that is not a production
\* build, useMockData is false exactly if the configured key is present, has at
\* least 10 characters and starts with 'AIza'; validateApiKey is true of
\* exactly those keys.
KeyDecidesMockAtConstruction ==
    [][(Constructs /\ ~PROD) =>
          /\ apiKey' = configKey
          /\ ~useMockData' <=> IsWellFormedKey(configKey)
          /\ \A key \in Keys : validateApiKey(key) <=> IsWellFormedKey(key)]_vars

\* the service was constructed live, with a valid key, while offline: the
\* probe has failed and its then-callback has not run yet
ConstructedLiveOffline ==
    /\ ~PROD /\ instance # 0 /\ ~useMockData /\ validateApiKey(apiKey)
    /\ ~onLine /\ req[Probe].pc = "done" /\ req[Probe].op = "test"

\* C23: whatever the sequence of getInstance calls, the constructor runs at
\* most once: once an instance exists every call leaves it in place, and the
\* probe, which only the constructor starts, is not started again.
InstanceIsSingleton ==
    /\ [](instance \in {0, 1})
    /\ [][instance # 0 =>
             /\ instance' = instance
             /\ apiKey' = apiKey
             /\ req[Probe].pc = "idle" => req'[Probe].pc = "idle"]_vars

\* the one instance serves a caller after its probe has come and gone
SingleInstanceInUse ==
    /\ instance = 1 /\ req[Probe].pc = "idle"
    /\ \E p \in Requests : req[p].pc = "fetch" /\ req[p].op = "enhance"

\* safeJsonParse(text) returns a value equal to v
Recovers(text, v) == safeJsonParse(text) = [found |-> TRUE, value |-> v]

\* C24: for every JSON object v, safeJsonParse gives back v from its clean
\* serialization, from the serialization in a fenced block between prose, and
\* from the serialization between prose without a fence; a facade operation
\* that gets such a reply returns v.
RecoveryRoundTrip ==
    [][\A p \in Requests : \A v \in JsonObjects : \A text \in {v, Fenced(v), InProse(v)} :
          (req[p].op \in FacadeOps /\ BodyIs(p, [kind |-> "text", text |-> text]))
              => (Recovers(text, v) /\ req'[p].result.value.text = v)]_vars

\* all three tries of safeJsonParse fail on this text
Unrecoverable(text) ==
    /\ ~JSONparse(text).ok
    /\ ~JSONparse(cleanGeminiResponse(text)).ok
    /\ ~ParseMatch(text, jsonPattern(text)).ok

\* C25: when none of its three tries parses the reply, safeJsonParse returns
\* null (no value found, no error thrown), and the facade operation that
\* called it returns its mock.
UnrecoverableReplyGivesMock ==
    [][\A p \in Requests : \A text \in Texts :
          (req[p].op \in FacadeOps /\ Unrecoverable(text)
             /\ BodyIs(p, [kind |-> "text", text |-> text]))
              => /\ safeJsonParse(text) = [found |-> FALSE, value |-> <<>>]
                 /\ req'[p].pc = "done"
                 /\ req'[p].result = Returned(MockOf(req[p].op, req[p].query))]_vars

\* a facade operation got a reply with broken JSON in it and returned its mock
EndedOnBrokenJson ==
    \E p \in Requests :
        /\ Ended(p) /\ req[p].op \in FacadeOps
        /\ req[p].api.status = "returned"
        /\ req[p].api.value.text = <<"p", "ws", "{", "\"s\"", ":", "}">>
        /\ IsMockResult(req[p].result)

\* the keyword groups in their order, each with its two entries as
\* <<category, confidence, subcategory>>
CategoryGroups ==
    << [words |-> {<<"p", "h", "o", "n", "e">>, <<"s", "m", "a", "r", "t", "p", "h", "o", "n", "e">>, <<"m", "o", "b", "i", "l", "e">>},
        entries |-> << <<"Electronics", 95, "Smartphones">>,
                       <<"Mobile Devices", 88, "Communication">> >>],
       [words |-> {<<"l", "a", "p", "t", "o", "p">>, <<"c", "o", "m", "p", "u", "t", "e", "r">>, <<"p", "c">>},
        entries |-> << <<"Electronics", 92, "Computers">>,
                       <<"Technology", 85, "Computing">> >>],
       [words |-> {<<"t", "v">>, <<"t", "e", "l", "e", "v", "i", "s", "i", "o", "n">>, <<"m", "o", "n", "i", "t", "o", "r">>},
        entries |-> << <<"Electronics", 90, "Display">>,
                       <<"Home Entertainment", 82, "Audio Visual">> >>],
       [words |-> {<<"h", "e", "a", "d", "p", "h", "o", "n", "e">>, <<"e", "a", "r", "p", "h", "o", "n", "e">>, <<"s", "p", "e", "a", "k", "e", "r">>, <<"a", "u", "d", "i", "o">>},
        entries |-> << <<"Electronics", 88, "Audio">>,
                       <<"Accessories", 75, "Audio Accessories">> >>],
       [words |-> {<<"w", "a", "t", "c", "h">>, <<"s", "m", "a", "r", "t", "w", "a", "t", "c", "h">>},
        entries |-> << <<"Electronics", 85, "Wearables">>,
                       <<"Fashion", 70, "Accessories">> >>],
       [words |-> {<<"s", "h", "i", "r", "t">>, <<"j", "e", "a", "n", "s">>, <<"d", "r", "e", "s", "s">>, <<"c", "l", "o", "t", "h", "i", "n", "g">>, <<"f", "a", "s", "h", "i", "o", "n">>},
        entries |-> << <<"Fashion", 90, "Apparel">>,
                       <<"Clothing", 85, "Casual Wear">> >>],
       [words |-> {<<"s", "h", "o", "e", "s">>, <<"s", "n", "e", "a", "k", "e", "r">>, <<"f", "o", "o", "t", "w", "e", "a", "r">>},
        entries |-> << <<"Fashion", 88, "Footwear">>,
                       <<"Sports", 72, "Athletic Wear">> >>],
       [words |-> {<<"b", "o", "o", "k">>, <<"n", "o", "v", "e", "l">>, <<"g", "u", "i", "d", "e">>},
        entries |-> << <<"Books", 92, "Literature">>,
                       <<"Education", 78, "Learning Materials">> >>],
       [words |-> {<<"f", "u", "r", "n", "i", "t", "u", "r", "e">>, <<"h", "o", "m", "e">>, <<"d", "e", "c", "o", "r">>},
        entries |-> << <<"Home & Garden", 87, "Furniture">>,
                       <<"Lifestyle", 75, "Home Improvement">> >> ] >>

DefaultEntries ==
    << <<"General", 80, "Consumer Goods">>, <<"Retail", 70, "Miscellaneous">> >>

\* the lower-cased query has one of the group's words in it
MatchesGroup(lower, k) ==
    \E word \in CategoryGroups[k].words :
        \E i \in 1..Len(lower) :
            /\ i + Len(word) - 1 <= Len(lower)
            /\ \A j \in 1..Len(word) : lower[i + j - 1] = word[j]

EntriesForLower(lower) ==
    IF \E k \in 1..Len(CategoryGroups) : MatchesGroup(lower, k)
    THEN CategoryGroups[CHOOSE k \in 1..Len(CategoryGroups) :
            /\ MatchesGroup(lower, k)
            /\ \A h \in 1..(k - 1) : ~MatchesGroup(lower, h)].entries
    ELSE DefaultEntries

EntriesFor(query) == Then(toLowerCase(query), EntriesForLower)

\* the categories are exactly the two entries, with confidences in (0, 1]
AreEntries(categories, entries) ==
    /\ Len(categories) = 2
    /\ \A n \in 1..2 :
          /\ categories[n].category = entries[n][1]
          /\ categories[n].confidence = entries[n][2]
          /\ categories[n].subcategory = entries[n][3]
          /\ categories[n].confidence > 0 /\ categories[n].confidence <= 100

\* C26: whatever the query, generateDynamicCategories returns exactly two
\* entries: those of the first keyword group, in the order of the groups, one
\* of whose words the query contains, or General and Retail when it contains
\* none; every confidence is above 0 and at most 1.  The categories of a mock
\* SmartSearchResult are the same.
CategoriesAreFirstMatch ==
    /\ synth.fn = "generateDynamicCategories"
          => AreEntries(synth.result, EntriesFor(synth.query))
    /\ synth.fn = "enhanceSearchQuery"
          => AreEntries(synth.result.categories, EntriesFor(synth.query))

\* a query with words of two groups got the entries of the earlier group
EarlierGroupWon ==
    /\ synth.fn = "generateDynamicCategories"
    /\ synth.query = <<"s", "p", "e", "a", "k", "e", "r", " ", "w", "a", "t", "c", "h">>
    /\ synth.result[1].subcategory = "Audio"

Digits == <<"0", "1", "2", "3", "4", "5", "6", "7", "8", "9">>

DigitValue(c) == (CHOOSE d \in 1..10 : Digits[d] = c) - 1

IsDigit(c) == \E d \in 1..10 : Digits[d] = c

\* the text is the rupee sign and a number, its digits grouped by commas
IsAmount(text) ==
    /\ Len(text) >= 2
    /\ text[1] = "₹"
    /\ IsDigit(text[2]) /\ IsDigit(text[Len(text)])
    /\ \A i \in 2..Len(text) : IsDigit(text[i]) \/ text[i] = ","
    /\ \A i \in 2..(Len(text) - 1) : text[i] = "," => text[i + 1] # ","

RECURSIVE NumberOf(_, _)
\* the number the digits of text[1..n] spell
NumberOf(text, n) ==
    IF n = 0 THEN 0
    ELSE IF IsDigit(text[n]) THEN 10 * NumberOf(text, n - 1) + DigitValue(text[n])
    ELSE NumberOf(text, n - 1)

\* the text has the form of two amounts with ' - ' between them, the first
\* not above the second
IsPriceRange(text) ==
    \E i \in 1..Len(text) :
        /\ i + 2 <= Len(text)
        /\ text[i] = " " /\ text[i + 1] = "-" /\ text[i + 2] = " "
        /\ IsAmount(SubSeq(text, 1, i - 1))
        /\ IsAmount(SubSeq(text, i + 3, Len(text)))
        /\ NumberOf(text, i - 1)
             <= NumberOf(SubSeq(text, i + 3, Len(text)), Len(text) - i - 2)

\* C27: whatever the query and the date, the priceRange of
\* generateDynamicMarketAnalysis reads '₹<number> - ₹<number>', and the first
\* number is at most the second.  The marketAnalysis of a mock
\* SmartSearchResult is such an analysis.
PriceRangeIsOrdered ==
    /\ synth.fn = "generateDynamicMarketAnalysis"
          => IsPriceRange(synth.result.priceRange)
    /\ synth.fn = "enhanceSearchQuery"
          => IsPriceRange(synth.result.marketAnalysis.priceRange)

\* an analysis whose bounds compare one way as numbers, the other way as text
ClothingBracket ==
    /\ synth.fn = "generateDynamicMarketAnalysis"
    /\ synth.result.priceRange = <<"₹", "5", "0", "0", " ", "-", " ", "₹", "5", ",", "0", "0", "0">>

\* the fields of a market analysis that no random value enters
FixedFields(analysis) ==
    <<analysis.priceRange, analysis.bestTimeToBuy, analysis.pricePrediction,
      analysis.marketInsights>>

\* the query is of a kind whose marketTrend the month alone decides
TrendFollowsMonth(query) == isElectronics(query) \/ isClothing(query)

\* two analyses of the same query on the same date agree as they must
SameAnalysis(query, analysis, before) ==
    /\ FixedFields(analysis) = FixedFields(before)
    /\ TrendFollowsMonth(query) => analysis.marketTrend = before.marketTrend

\* C28: two runs of Mock Synthesis on the same query and the same date give
\* the same categories, priceRange, bestTimeToBuy, pricePrediction and
\* marketInsights whatever Math.random() returns in each; the marketTrend is
\* the same too when the query is an electronics or a clothing query.
MockSynthesisIsDeterministic ==
    /\ (synth.fn = "enhanceSearchQuery" /\ synth.calls >= 2) =>
          /\ synth.result.categories = synth.previous.categories
          /\ SameAnalysis(synth.query, synth.result.marketAnalysis,
                          synth.previous.marketAnalysis)
    /\ (synth.fn = "generateDynamicMarketAnalysis" /\ synth.calls >= 2) =>
          SameAnalysis(synth.query, synth.result, synth.previous)
    /\ (synth.fn = "generateDynamicCategories" /\ synth.calls >= 2) =>
          synth.result = synth.previous

\* two runs on the same query and date that differ, in the marketTrend alone
RunsDifferInTrend ==
    /\ synth.fn = "enhanceSearchQuery" /\ synth.calls = 2
    /\ synth.result.marketAnalysis.marketTrend
          # synth.previous.marketAnalysis.marketTrend
    /\ [synth.result EXCEPT !.marketAnalysis.marketTrend = "stable"]
          = [synth.previous EXCEPT !.marketAnalysis.marketTrend = "stable"]

PremiumBracket == <<"₹", "1", ",", "0", "0", ",", "0", "0", "0", " ", "-", " ", "₹", "2", ",", "0", "0", ",", "0", "0", "0">>
ElectronicsBracket == <<"₹", "1", "5", ",", "0", "0", "0", " ", "-", " ", "₹", "8", "0", ",", "0", "0", "0">>

\* C29: in mock mode enhanceSearchQuery(q) returns q followed by ' best deals
\* 2024' as enhancedQuery; for 'iphone' the first category is Electronics,
\* Smartphones, 0.95; the priceRange is '₹1,00,000 - ₹2,00,000' exactly when
\* the query names an Apple product and has an expensive keyword; and an Apple
\* query without an expensive keyword gets the electronics bracket
\* '₹15,000 - ₹80,000'.
MockEnhanceIsAsDescribed ==
    synth.fn = "enhanceSearchQuery" =>
        /\ synth.result.enhancedQuery = synth.query \o <<" ", "b", "e", "s", "t", " ", "d", "e", "a", "l", "s", " ", "2", "0", "2", "4">>
        /\ synth.query = <<"i", "p", "h", "o", "n", "e">> =>
              /\ synth.result.categories[1].category = "Electronics"
              /\ synth.result.categories[1].subcategory = "Smartphones"
              /\ synth.result.categories[1].confidence = 95
        /\ (synth.result.marketAnalysis.priceRange = PremiumBracket)
              <=> (isApple(synth.query) /\ isExpensive(synth.query))
        /\ (isApple(synth.query) /\ ~isExpensive(synth.query))
              => synth.result.marketAnalysis.priceRange = ElectronicsBracket

\* C30: an attempt of makeRequestWithRetry that starts with the signal already
\* set, as every attempt after a backoff sleep during which the timeout fired
\* and the first attempt on the endpoints that follow, fails at once: the
\* execution reaches no network call and no backoff sleep from it.
AbortedAttemptFailsAtOnce ==
    [][\A p \in Procs :
          (/\ req[p].aborted
           /\ req[p].pc \in {"sleep429", "sleepNet"}
           /\ req'[p] # req[p])
          => req'[p].pc \notin {"fetch", "sleep429", "sleepNet"}]_vars

\* C31: once the cancellation signal of an execution has fired, no step of it
\* hands a request to fetch, on any endpoint or attempt.
NoCallAfterAbort ==
    [][\A p \in Procs : req[p].aborted => ~IssuesCall(p)]_vars

\* an attempt on the first endpoint started with the signal set and threw
\* instead of calling; the execution went on to the second endpoint
AbortedAttemptSkippedCall ==
    \E p \in Procs :
        /\ req[p].aborted /\ req[p].ep = 2
        /\ req[p].lastError = EndpointError(1, MsgAborted)

\* C32: whatever the endpoint answers, one call of makeRequestWithRetry makes
\* at most maxRetries + 1 fetch calls; makeApiRequest calls the routine once
\* for each endpoint in turn, the count starting again only when it moves to
\* the next one, so an execution makes at most maxRetries + 1 calls to each
\* endpoint and Len(endpoints) * (maxRetries + 1) in all.
CallsAreBounded ==
    /\ [](\A p \in Procs :
             /\ req[p].calls <= maxRetries + 1
             /\ req[p].ep <= Len(endpoints)
             /\ (Max({req[p].ep, 1}) - 1) * (maxRetries + 1) + req[p].calls
                   <= Len(endpoints) * (maxRetries + 1))
    /\ [][\A p \in Procs :
             req'[p].pc \notin {"idle", "done"} =>
                 \/ req'[p].ep = req[p].ep /\ req'[p].calls >= req[p].calls
                 \/ req'[p].ep = req[p].ep + 1 /\ req'[p].calls <= 1]_vars

\* the last call the bound allows is in flight on the last endpoint, after a
\* 429 and a transport failure there
LastAllowedCallInFlight ==
    \E p \in Procs :
        /\ req[p].pc = "fetch" /\ req[p].ep = Len(endpoints)
        /\ req[p].calls = maxRetries + 1
        /\ req[p].rateLimited = 1 /\ req[p].attempt = maxRetries

\* C33: a live makeApiRequest that ends because the retry routine returned the
\* use-mock-data sentinel returns, without error, the value it returns for the
\* same prompt when mock mode is active at entry: the SmartSearchResult object
\* for a prompt with a structured marker, the canned string otherwise.
SentinelGivesEntryMock ==
    \A p \in Procs :
        (Ended(p) /\ req[p].api.rateLimited = maxRetries + 1)
            => /\ req[p].api.status = "returned"
               /\ req[p].api.value = MockForPrompt(Prompt(req[p].op, req[p].query))

\* C34: the prompt of every facade operation (enhance, categorize, analyze,
\* recommend) contains one of the markers makeApiRequest tests, so that the
\* mock branch of makeApiRequest answers it with the structured object and
\* not with the conversational string.
FacadePromptsAreStructured ==
    \A p \in Requests :
        req[p].op \in FacadeOps =>
            /\ IsStructuredPrompt(Prompt(req[p].op, req[p].query))
            /\ MockForPrompt(Prompt(req[p].op, req[p].query)).type = "object"

\* the text of cleanGeminiResponse before its two matches: trimmed, the fence
\* markers removed, trimmed again
FencesStripped(response) ==
    Then(Then(Then(Then(response, Trim), StripOpeningFence), StripClosingFence), Trim)

\* what the second stage of recovery is to extract from the stripped text
PreferredSpan(c) ==
    IF GreedySpan(c, "{", "}")[1] > 0 THEN Matched(c, GreedySpan(c, "{", "}"))
    ELSE Matched(c, GreedySpan(c, "[", "]"))

\* C35: when a facade operation cleans a reply that did not parse as it came,
\* cleanGeminiResponse gives the outermost object span of the stripped text
\* whenever there is one, array brackets inside or outside it or not; it gives
\* an array span only when the text has no object span.
ObjectSpanIsPreferred ==
    \A p \in Requests :
        (/\ Ended(p) /\ req[p].op \in FacadeOps
         /\ req[p].api.status = "returned" /\ req[p].api.value.src = "backend"
         /\ ~JSONparse(req[p].api.value.text).ok)
            => cleanGeminiResponse(req[p].api.value.text)
                  = Then(FencesStripped(req[p].api.value.text), PreferredSpan)

\* every combination of the six tests' results
FlagCombinations ==
    [{"isElectronics", "isApple", "isClothing", "isHome", "isBook", "isExpensive"}
        -> BOOLEAN]

\* the brackets the chain can select
Brackets == {priceRangeFor(flags) : flags \in FlagCombinations}

\* C36 as stated: over all combinations of the six flags the chain can select
\* exactly 8 brackets, and the bracket of a synthesized analysis is one of them.
TableHasEightBrackets ==
    /\ Cardinality(Brackets) = 8
    /\ synth.fn = "generateDynamicMarketAnalysis"
          => synth.result.priceRange \in Brackets

\* C36, amended: the chain selects one bracket for each of the 64 combinations
\* of the six flags, the bracket of its first branch that holds, and the
\* brackets it can select are exactly 7: premium Apple, premium electronics,
\* electronics, clothing, home, book and the default.  The bracket of a
\* synthesized analysis is the one selected for the flags of its query.
TableHasSevenBrackets ==
    /\ Cardinality(FlagCombinations) = 64
    /\ Cardinality(Brackets) = 7
    /\ Brackets = { <<"₹", "1", ",", "0", "0", ",", "0", "0", "0", " ", "-", " ", "₹", "2", ",", "0", "0", ",", "0", "0", "0">>, <<"₹", "5", "0", ",", "0", "0", "0", " ", "-", " ", "₹", "1", ",", "5", "0", ",", "0", "0", "0">>,
                    <<"₹", "1", "5", ",", "0", "0", "0", " ", "-", " ", "₹", "8", "0", ",", "0", "0", "0">>, <<"₹", "5", "0", "0", " ", "-", " ", "₹", "5", ",", "0", "0", "0">>,
                    <<"₹", "2", ",", "0", "0", "0", " ", "-", " ", "₹", "5", "0", ",", "0", "0", "0">>, <<"₹", "2", "0", "0", " ", "-", " ", "₹", "2", ",", "0", "0", "0">>,
                    <<"₹", "1", ",", "0", "0", "0", " ", "-", " ", "₹", "2", "5", ",", "0", "0", "0">> }
    /\ synth.fn = "generateDynamicMarketAnalysis"
          => /\ synth.result.priceRange \in Brackets
             /\ synth.result.priceRange = priceRangeFor(flagsOf(synth.query))

\* an analysis was synthesized for a query that only the home test matches
HomeBracketSelected ==
    /\ synth.fn = "generateDynamicMarketAnalysis"
    /\ isHome(synth.query) /\ ~isElectronics(synth.query) /\ ~isClothing(synth.query)
    /\ synth.result.priceRange = <<"₹", "2", ",", "0", "0", "0", " ", "-", " ", "₹", "5", "0", ",", "0", "0", "0">>

\* C37: a makeApiRequest execution that armed its timeout timer and has ended,
\* by returning text, by returning the canned reply after the sentinel or by
\* throwing, has no timer left to fire: the timer was cleared or has fired.
NoTimerOutlivesExecution ==
    \A p \in Procs : Ended(p) => req[p].timer # "armed"

====
